---- MODULE Spec2Model ----
(***************************************************************************)
(* Document preprocessing pipeline (preprocessing/pipeline.py) of the      *)
(* share-files repository: one document row, the SQLAlchemy session the    *)
(* pipeline writes through, and the progress callback it notifies.         *)
(*                                                                         *)
(* The session is modelled by its unit of work: attribute assignments and  *)
(* db.add() change the in-session state (sess, pending) and db.commit()    *)
(* writes all of it to the persisted state (row, chunks).  Queries and      *)
(* commits are taken to succeed in Spec; in SpecStoreFailure the commit of *)
(* the store stage may raise: the session is then left as it is, since the *)
(* pipeline never rolls back, and its use in the except clause may raise   *)
(* in turn.                                                                *)
(***************************************************************************)
EXTENDS Integers, Sequences, FiniteSets, TLC

\* ---------------------------------------------------------------- bounds
MaxRuns == 2        \* runs of process_document on the document, one after another
MaxSections == 1    \* sections in an ExtractedContent
MaxNodes == 1       \* nodes the splitter returns for one section
MaxTables == 1      \* tables in an ExtractedContent
MaxEmbeddings == 2  \* length of the list the embedding library returns
MaxDeliveries == 3  \* send_json calls that succeed, over all connections
MaxFnSections == 2  \* sections passed to chunk_sections on its own
MaxFnNodes == 2     \* nodes the splitter returns for one of them
MaxFnTables == 2    \* tables passed to chunk_tables on its own
MaxTexts == 3       \* texts passed to generate_embeddings on its own
MaxBatchSize == 4   \* batch_size passed to generate_embeddings
MaxDomains == 2     \* domain labels passed to get_cpc_hints
MaxUploads == 2     \* POST /upload requests received
MaxElements == 3    \* elements passed to _organize_elements
MaxChars == 3       \* characters of a short text passed to _estimate_tokens
MaxWords == 100     \* words of a text passed to _estimate_tokens

NULL == "null"
\* str(e) of the exception raised at each site: every collaborator has its own
\* message, the callback has one, and the ValueError of a missing document
MsgOf(site) ==
    CASE site = "load" -> "Document not found"
      [] site = "extract" -> "extract error"
      [] site = "classify" -> "classify error"
      [] site = "chunk" -> "chunk error"
      [] site = "embed" -> "embed error"
      [] site = "store" -> "store error"
      [] site = "commit" -> "commit error"
      [] site = "session" -> "session error"
      [] OTHER -> "callback error"
NoExc == [site |-> "none", msg |-> "none"]

VARIABLES
    doc_exists,     \* the Store has a row for document_id
    row,            \* the persisted Document row (committed state)
    other_row,      \* the persisted row of another document
    chunks,         \* the persisted DocumentChunk rows (committed state)
    sess,           \* the Document object's attributes in the session
    pending,        \* DocumentChunk objects added to the session, not committed
    pc,             \* position of the current run in process_document
    run,            \* number of runs started so far
    has_callback,   \* progress_callback is not None
    events,         \* the dicts passed to progress_callback in this run
    exc,            \* the exception e caught by the except clause
    extracted,      \* ExtractedContent returned by the extractor
    all_chunks,     \* section_chunks + table_chunks
    embeddings,     \* list returned by embedder.generate_embeddings
    outcome         \* what the run handed to its caller

vars == <<doc_exists, row, other_row, chunks, sess, pending, pc, run, has_callback,
          events, exc, extracted, all_chunks, embeddings, outcome>>

\* The connection manager (api/documents/websocket.py), the WebSocket route
\* that registers connections with it (api/documents/routes.py) and the
\* service run that publishes through it (api/documents/services.py).
VARIABLES
    ws_doc,              \* per connection, the document_id of its route path
    active_connections,  \* ConnectionManager.active_connections: a dict from
                         \* document id to a set of connections
    accepting,           \* connect() calls suspended in websocket.accept()
    sending,             \* the send_progress calls suspended in their loop
    received,            \* per connection, the payloads send_json delivered
    svc,                 \* per document id, DocumentService.process_document
    published            \* per document id, the payloads passed to send_progress

reg_vars == <<ws_doc, active_connections, accepting, sending, received, svc,
              published>>

\* One call of a function of the chunker, the embedder or the classifier,
\* taken on its own.
VARIABLES
    fn_call,     \* the function called and its arguments
    fn_result    \* what the calls made so far returned, in order

fn_vars == <<fn_call, fn_result>>

\* The upload route (api/documents/routes.py) with the service it calls and
\* the background tasks it schedules.
VARIABLES
    requests,    \* per POST /upload request: its position in upload_document,
                 \* the Document it created and its BackgroundTasks
    documents    \* the Document rows: id -> processing_status

up_vars == <<requests, documents>>

\* The WebSocket route (api/documents/routes.py).
VARIABLES
    handler      \* per WebSocket: the position of its websocket_endpoint call

ep_vars == <<handler>>

\* the WebSocket objects, the document ids, and the ids that have a Document
\* row: "doc1" was uploaded, "doc2" is unknown to the Store
Conns == {"ws1", "ws2"}
Docs == {"doc1", "doc2"}
StoreDocs == {"doc1"}

\* ProcessingStage and the progress each stage is notified with
StageOrder == <<"extracting", "classifying", "chunking", "embedding",
                "storing", "complete">>
StageProgress == <<20, 35, 50, 70, 85, 100>>
Terminal == {"complete", "failed"}

\* ---------------------------------------------------------------- helpers
Min(a, b) == IF a < b THEN a ELSE b

SeqsUpTo(S, n) == UNION {[1..k -> S] : k \in 0..n}

\* a dict built from the second operand alone
MergeDict_Replace(a, b) == b

\* {**a, **b}: keys of both, values of b winning
MergeDict(a, b) ==
    [k \in (DOMAIN a) \cup (DOMAIN b) |-> IF k \in DOMAIN b THEN b[k] ELSE a[k]]

\* ---------------------------------------------------------------- chunker
\* A section is the number of nodes the splitter yields for its joined text;
\* -1 stands for a section whose text list is empty.
EmptySection == -1

\* The key of the pos-th entry of the sections dict, in insertion order.
SectionName(pos) == <<"section", pos>>

\* The rest of the loop over sections.items(), from the pos-th entry on;
\* node local_idx of a section is the local_idx-th node of the splitter.
RECURSIVE chunk_sections_from(_, _, _)
chunk_sections_from(sections, pos, chunk_global_index) ==
    IF sections = <<>> THEN <<>>
    ELSE IF Head(sections) = EmptySection
         THEN chunk_sections_from(Tail(sections), pos + 1, chunk_global_index)
         ELSE [local_idx \in 1..Head(sections) |->
                  [chunk_index |-> chunk_global_index + local_idx - 1,
                   section_type |-> SectionName(pos),
                   local_chunk_index |-> local_idx - 1,
                   total_chunks_in_section |-> Head(sections)]]
              \o chunk_sections_from(Tail(sections), pos + 1,
                                     chunk_global_index + Head(sections))

chunk_sections_FromOne(sections) == chunk_sections_from(sections, 1, 1)

chunk_sections(sections) == chunk_sections_from(sections, 1, 0)

chunk_tables_FromOne(tables) ==
    [i \in 1..tables |->
        [chunk_index |-> i, section_type |-> "table", table_index |-> i]]

\* tables is the number of tables; the i-th table chunk is made of table i
chunk_tables(tables) ==
    [i \in 1..tables |->
        [chunk_index |-> i - 1, section_type |-> "table", table_index |-> i - 1]]

\* What a run of the pipeline does with a Chunk depends on its place in the
\* list and its chunk_index; its section_type is stored as it is.  Within a
\* run the chunk is kept as its chunk_index and whether it came from a
\* section or from a table.
RunChunk(chunk) ==
    [chunk_index |-> chunk.chunk_index,
     section_type |-> IF chunk.section_type = "table" THEN "table"
                      ELSE "section"]

\* ---------------------------------------------------------------- embedder
\* generate_embeddings: [] for no texts, else whatever the embedding library
\* returns for the batches (n is the length of that list); embedding k is the
\* k-th vector of the returned list.
generate_embeddings(texts, n) ==
    IF texts = <<>> THEN <<>> ELSE [k \in 1..n |-> k]

\* ---------------------------------------------------------------- session
\* a commit that writes the status to every Document row
Commit_AllRows(s) ==
    /\ row' = s
    /\ other_row' = [other_row EXCEPT
                        !.processing_status = s.processing_status]
    /\ sess' = s
    /\ chunks' = chunks \o pending
    /\ pending' = <<>>

\* db.commit(): the session's pending state becomes the persisted state.  The
\* session holds the Document the run queried by id and the DocumentChunks it
\* added; the row of another document is not in it.
Commit(s) ==
    /\ row' = s
    /\ other_row' = other_row
    /\ sess' = s
    /\ chunks' = chunks \o pending
    /\ pending' = <<>>

\* an exception raised at a site inside the try block
Raise(site) ==
    /\ exc' = [site |-> site, msg |-> MsgOf(site)]
    /\ pc' = "except"

\* an event whose error field always carries a text
ProgressEvent_Message(stage, progress, error) ==
    [stage |-> stage, progress |-> progress, error |-> stage]

ProgressEvent(stage, progress, error) ==
    [stage |-> stage, progress |-> progress, error |-> error]

\* _update_progress inside the try block: the callback, when there is one, is
\* awaited with the event; it returns (control goes on to next) or raises.
update_progress(stage, progress, next) ==
    IF has_callback
    THEN /\ events' = Append(events, ProgressEvent(stage, progress, NULL))
         /\ \/ pc' = next /\ exc' = exc
            \/ Raise("callback")
    ELSE /\ events' = events
         /\ pc' = next
         /\ exc' = exc

\* ---------------------------------------------------------------- initial state
\* ConnectionManager.__init__: no connection, nothing in flight, no run
RegistryIdle ==
    /\ ws_doc = [c \in Conns |-> "doc1"]
    /\ active_connections = <<>>
    /\ accepting = {}
    /\ sending = {}
    /\ received = [c \in Conns |-> <<>>]
    /\ svc = [d \in Docs |-> "none"]
    /\ published = [d \in Docs |-> <<>>]

\* no upload request received, no Document row created by one; document 0
\* is the local of a request that has not created its Document
NoRequest == [pc |-> "none", document |-> 0, background_tasks |-> <<>>]
Requests == 1..MaxUploads
UploadIdle ==
    /\ requests = [r \in Requests |-> NoRequest]
    /\ documents = <<>>

\* no websocket_endpoint call made
EndpointIdle == handler = [c \in Conns |-> "none"]

\* no function called on its own
FnIdle ==
    /\ fn_call = [fn |-> "none"]
    /\ fn_result = <<>>

\* After upload_and_process: a pending row with the upload-time metadata; or
\* no row at all for the document id.
UploadedRow ==
    [id |-> "document_id",
     project_id |-> "upload",
     filename |-> "upload",
     file_type |-> "upload",
     file_size_bytes |-> "upload",
     storage_path |-> "upload",
     document_type |-> "upload",
     uploaded_at |-> "uploaded",
     deleted_at |-> NULL,
     processing_status |-> "pending",
     processing_error |-> NULL,
     processed_at |-> NULL,
     metadata |-> [k \in {"is_primary", "original_filename"} |-> "upload"]]

\* the row of another document, uploaded the same way
OtherRow == [UploadedRow EXCEPT !.id = "other_document_id"]

Init ==
    /\ doc_exists \in BOOLEAN
    /\ row = UploadedRow
    /\ other_row = OtherRow
    /\ sess = UploadedRow
    /\ chunks = <<>>
    /\ pending = <<>>
    /\ pc = "idle"
    /\ run = 0
    /\ has_callback = FALSE
    /\ events = <<>>
    /\ exc = NoExc
    /\ extracted = [sections |-> <<>>, tables |-> 0]
    /\ all_chunks = <<>>
    /\ embeddings = <<>>
    /\ outcome = [kind |-> "none"]
    /\ RegistryIdle
    /\ FnIdle
    /\ UploadIdle
    /\ EndpointIdle

\* ---------------------------------------------------------------- process_document
\* A caller invokes process_document(document_id, ..., progress_callback).
StartRun ==
    /\ pc \in {"idle", "done"}
    /\ run < MaxRuns
    /\ run' = run + 1
    /\ has_callback' \in BOOLEAN
    /\ events' = <<>>
    /\ exc' = NoExc
    /\ extracted' = [sections |-> <<>>, tables |-> 0]
    /\ all_chunks' = <<>>
    /\ embeddings' = <<>>
    /\ outcome' = [kind |-> "none"]
    /\ pc' = "load"
    /\ UNCHANGED <<doc_exists, row, other_row, chunks, sess, pending>>

\* LoadDocument without the check that the query found a document
LoadDocument_NoCheck ==
    /\ pc = "load"
    /\ Commit([sess EXCEPT !.processing_status = "processing"])
    /\ pc' = "notify_extracting"
    /\ exc' = exc
    /\ UNCHANGED <<doc_exists, run, has_callback, events, extracted,
                   all_chunks, embeddings, outcome>>

\* LoadDocument that assigns the status and leaves the commit out
LoadDocument_NotCommitted ==
    /\ pc = "load"
    /\ IF ~doc_exists
       THEN /\ Raise("load")
            /\ sess' = sess
       ELSE /\ sess' = [sess EXCEPT !.processing_status = "processing"]
            /\ pc' = "notify_extracting"
            /\ exc' = exc
    /\ UNCHANGED <<doc_exists, row, other_row, chunks, pending, run,
                   has_callback, events, extracted, all_chunks, embeddings,
                   outcome>>

\* query the document; raise ValueError if absent, else status = "processing"
\* and commit
LoadDocument ==
    /\ pc = "load"
    /\ IF ~doc_exists
       THEN /\ Raise("load")
            /\ UNCHANGED <<row, other_row, sess, chunks, pending>>
       ELSE /\ Commit([sess EXCEPT !.processing_status = "processing"])
            /\ pc' = "notify_extracting"
            /\ exc' = exc
    /\ UNCHANGED <<doc_exists, run, has_callback, events, extracted,
                   all_chunks, embeddings, outcome>>

NotifyExtracting ==
    /\ pc = "notify_extracting"
    /\ update_progress("extracting", 20, "extract")
    /\ UNCHANGED <<doc_exists, row, other_row, chunks, sess, pending, run, has_callback,
                   extracted, all_chunks, embeddings, outcome>>

Extract ==
    /\ pc = "extract"
    /\ \/ /\ \E s \in SeqsUpTo({EmptySection} \cup (0..MaxNodes), MaxSections),
                t \in 0..MaxTables :
               extracted' = [sections |-> s, tables |-> t]
          /\ pc' = "notify_classifying"
          /\ exc' = exc
       \/ /\ Raise("extract")
          /\ extracted' = extracted
    /\ UNCHANGED <<doc_exists, row, other_row, chunks, sess, pending, run, has_callback,
                   events, all_chunks, embeddings, outcome>>

NotifyClassifying ==
    /\ pc = "notify_classifying"
    /\ update_progress("classifying", 35, "classify")
    /\ UNCHANGED <<doc_exists, row, other_row, chunks, sess, pending, run, has_callback,
                   extracted, all_chunks, embeddings, outcome>>

Classify ==
    /\ pc = "classify"
    /\ \/ pc' = "notify_chunking" /\ exc' = exc
       \/ Raise("classify")
    /\ UNCHANGED <<doc_exists, row, other_row, chunks, sess, pending, run, has_callback,
                   events, extracted, all_chunks, embeddings, outcome>>

NotifyChunking ==
    /\ pc = "notify_chunking"
    /\ update_progress("chunking", 50, "chunk")
    /\ UNCHANGED <<doc_exists, row, other_row, chunks, sess, pending, run, has_callback,
                   extracted, all_chunks, embeddings, outcome>>

Chunk ==
    /\ pc = "chunk"
    /\ \/ /\ LET section_chunks == chunk_sections(extracted.sections)
                 table_chunks == chunk_tables(extracted.tables)
             IN all_chunks' = [k \in 1..(Len(section_chunks) + Len(table_chunks))
                                 |-> RunChunk((section_chunks \o table_chunks)[k])]
          /\ pc' = "notify_embedding"
          /\ exc' = exc
       \/ /\ Raise("chunk")
          /\ all_chunks' = all_chunks
    /\ UNCHANGED <<doc_exists, row, other_row, chunks, sess, pending, run, has_callback,
                   events, extracted, embeddings, outcome>>

\* NotifyEmbedding with the progress of a stage out of order
NotifyEmbedding_LowProgress ==
    /\ pc = "notify_embedding"
    /\ update_progress("embedding", 40, "embed")
    /\ UNCHANGED <<doc_exists, row, other_row, chunks, sess, pending, run, has_callback,
                   extracted, all_chunks, embeddings, outcome>>

NotifyEmbedding ==
    /\ pc = "notify_embedding"
    /\ update_progress("embedding", 70, "embed")
    /\ UNCHANGED <<doc_exists, row, other_row, chunks, sess, pending, run, has_callback,
                   extracted, all_chunks, embeddings, outcome>>

Embed ==
    /\ pc = "embed"
    /\ \/ /\ \E n \in 0..MaxEmbeddings :
               embeddings' = generate_embeddings(all_chunks, n)
          /\ pc' = "notify_storing"
          /\ exc' = exc
       \/ /\ Raise("embed")
          /\ embeddings' = embeddings
    /\ UNCHANGED <<doc_exists, row, other_row, chunks, sess, pending, run, has_callback,
                   events, extracted, all_chunks, outcome>>

NotifyStoring ==
    /\ pc = "notify_storing"
    /\ update_progress("storing", 85, "store")
    /\ UNCHANGED <<doc_exists, row, other_row, chunks, sess, pending, run, has_callback,
                   extracted, all_chunks, embeddings, outcome>>

\* the DocumentChunk built for the k-th (chunk, embedding) pair of the zip
db_chunk(k) ==
    [run |-> run,
     chunk_index |-> all_chunks[k].chunk_index,
     section_type |-> all_chunks[k].section_type,
     embedding |-> embeddings[k]]

\* The classifier's results of this run (domains, technical_terms, cpc_hints):
\* locals of the run, computed from the text extracted in it; each stands for
\* itself.
classified(field) == <<"local", field>>

\* the pipeline-derived metadata fields
derived_metadata ==
    [total_chunks |-> Len(all_chunks),
     technical_domains |-> classified("domains"),
     technical_terms |-> classified("technical_terms"),
     cpc_hints |-> classified("cpc_hints"),
     has_tables |-> extracted.tables > 0,
     embedding_model |-> "AI-Growth-Lab/PatentSBERTa",
     embedding_dimension |-> "embedding_dim"]

\* Stage 5, from the zip loop to the commit (no await in between):
\*   for chunk, embedding in zip(all_chunks, embeddings): db.add(DocumentChunk(..))
\*   document.processing_status = "completed"; processed_at = utcnow()
\*   document.metadata = {**document.metadata, ...}; db.commit()
\* Building the metadata dict may raise (document.metadata not a mapping, a
\* missing embedder attribute), after the adds and the two assignments.
Store ==
    /\ pc = "store"
    /\ LET n == Min(Len(all_chunks), Len(embeddings))
           added == pending \o [k \in 1..n |-> db_chunk(k)]
           assigned == [sess EXCEPT !.processing_status = "completed",
                                    !.processed_at = "now"] IN
       \/ /\ row' = [assigned EXCEPT
                        !.metadata = MergeDict(sess.metadata, derived_metadata)]
          /\ other_row' = other_row
          /\ sess' = row'
          /\ chunks' = chunks \o added
          /\ pending' = <<>>
          /\ pc' = "notify_complete"
          /\ exc' = exc
       \/ /\ pending' = added
          /\ sess' = assigned
          /\ Raise("store")
          /\ UNCHANGED <<row, other_row, chunks>>
    /\ UNCHANGED <<doc_exists, run, has_callback, events, extracted,
                   all_chunks, embeddings, outcome>>

\* Stage 5 when db.commit() raises (pipeline.py:153): the adds and the three
\* assignments are in the session, nothing is persisted
StoreCommitRaises ==
    /\ pc = "store"
    /\ LET n == Min(Len(all_chunks), Len(embeddings))
           added == pending \o [k \in 1..n |-> db_chunk(k)]
           assigned == [sess EXCEPT !.processing_status = "completed",
                                    !.processed_at = "now"] IN
       /\ pending' = added
       /\ sess' = [assigned EXCEPT
                      !.metadata = MergeDict(sess.metadata, derived_metadata)]
       /\ Raise("commit")
       /\ UNCHANGED <<row, other_row, chunks>>
    /\ UNCHANGED <<doc_exists, run, has_callback, events, extracted,
                   all_chunks, embeddings, outcome>>

NotifyComplete ==
    /\ pc = "notify_complete"
    /\ update_progress("complete", 100, "return")
    /\ UNCHANGED <<doc_exists, row, other_row, chunks, sess, pending, run, has_callback,
                   extracted, all_chunks, embeddings, outcome>>

\* ReturnResult counting the stored pairs instead of the assembled chunks
ReturnResult_StoredCount ==
    /\ pc = "return"
    /\ outcome' = [kind |-> "returned",
                   status |-> "success",
                   chunks_created |-> Min(Len(all_chunks), Len(embeddings)),
                   has_tables |-> extracted.tables > 0]
    /\ pc' = "done"
    /\ UNCHANGED <<doc_exists, row, other_row, chunks, sess, pending, run, has_callback,
                   events, exc, extracted, all_chunks, embeddings>>

ReturnResult ==
    /\ pc = "return"
    /\ outcome' = [kind |-> "returned",
                   status |-> "success",
                   chunks_created |-> Len(all_chunks),
                   has_tables |-> extracted.tables > 0]
    /\ pc' = "done"
    /\ UNCHANGED <<doc_exists, row, other_row, chunks, sess, pending, run, has_callback,
                   events, exc, extracted, all_chunks, embeddings>>

\* except Exception as e: query the document again (the session returns the
\* same object, with its uncommitted attribute values); if it exists, set
\* status "failed" and processing_error = str(e), and commit the session.
\* After a commit that raised, the session has not been rolled back: the
\* query or the commit of the except clause may raise in turn, and that
\* exception leaves process_document before anything is persisted or notified.
HandleException ==
    /\ pc = "except"
    /\ \/ /\ IF doc_exists
             THEN Commit([sess EXCEPT !.processing_status = "failed",
                                      !.processing_error = exc.msg])
             ELSE UNCHANGED <<row, other_row, sess, chunks, pending>>
          /\ pc' = "notify_failed"
          /\ outcome' = outcome
       \/ /\ exc.site = "commit"
          /\ outcome' = [kind |-> "raised",
                         exception |-> [site |-> "session",
                                        msg |-> MsgOf("session")]]
          /\ pc' = "done"
          /\ UNCHANGED <<row, other_row, sess, chunks, pending>>
    /\ UNCHANGED <<doc_exists, run, has_callback, events, exc, extracted,
                   all_chunks, embeddings>>

\* await _update_progress(callback, FAILED, 0, str(e)); raise e
\* If the callback raises here, its exception leaves the except clause
\* instead of e.
NotifyFailedAndRaise ==
    /\ pc = "notify_failed"
    /\ IF has_callback
       THEN /\ events' = Append(events, ProgressEvent("failed", 0, exc.msg))
            /\ \/ outcome' = [kind |-> "raised", exception |-> exc]
               \/ outcome' = [kind |-> "raised",
                              exception |-> [site |-> "callback_failed",
                                             msg |-> MsgOf("callback_failed")]]
       ELSE /\ events' = events
            /\ outcome' = [kind |-> "raised", exception |-> exc]
    /\ pc' = "done"
    /\ UNCHANGED <<doc_exists, row, other_row, chunks, sess, pending, run, has_callback,
                   exc, extracted, all_chunks, embeddings>>

\* a step of the pipeline leaves the connection manager alone
Next ==
    \/ StartRun /\ UNCHANGED <<reg_vars, fn_vars, up_vars, ep_vars>>
    \/ LoadDocument /\ UNCHANGED <<reg_vars, fn_vars, up_vars, ep_vars>>
    \/ NotifyExtracting /\ UNCHANGED <<reg_vars, fn_vars, up_vars, ep_vars>>
    \/ Extract /\ UNCHANGED <<reg_vars, fn_vars, up_vars, ep_vars>>
    \/ NotifyClassifying /\ UNCHANGED <<reg_vars, fn_vars, up_vars, ep_vars>>
    \/ Classify /\ UNCHANGED <<reg_vars, fn_vars, up_vars, ep_vars>>
    \/ NotifyChunking /\ UNCHANGED <<reg_vars, fn_vars, up_vars, ep_vars>>
    \/ Chunk /\ UNCHANGED <<reg_vars, fn_vars, up_vars, ep_vars>>
    \/ NotifyEmbedding /\ UNCHANGED <<reg_vars, fn_vars, up_vars, ep_vars>>
    \/ Embed /\ UNCHANGED <<reg_vars, fn_vars, up_vars, ep_vars>>
    \/ NotifyStoring /\ UNCHANGED <<reg_vars, fn_vars, up_vars, ep_vars>>
    \/ Store /\ UNCHANGED <<reg_vars, fn_vars, up_vars, ep_vars>>
    \/ NotifyComplete /\ UNCHANGED <<reg_vars, fn_vars, up_vars, ep_vars>>
    \/ ReturnResult /\ UNCHANGED <<reg_vars, fn_vars, up_vars, ep_vars>>
    \/ HandleException /\ UNCHANGED <<reg_vars, fn_vars, up_vars, ep_vars>>
    \/ NotifyFailedAndRaise /\ UNCHANGED <<reg_vars, fn_vars, up_vars, ep_vars>>

Spec == Init /\ [][Next]_vars

\* The pipeline with a Store whose commit of the store stage may raise.
StoreFailureNext ==
    \/ Next
    \/ StoreCommitRaises /\ UNCHANGED <<reg_vars, fn_vars, up_vars, ep_vars>>

SpecStoreFailure == Init /\ [][StoreFailureNext]_vars

\* ================================================================ connection manager
\* active_connections is a Python dict: a function whose domain is the set of
\* keys present.
Registered(d) ==
    IF d \in DOMAIN active_connections THEN active_connections[d] ELSE {}

\* a registration that adds the connection to the set of every id present
register_Everywhere(conns, c, d) ==
    [k \in (DOMAIN conns) \cup {d} |->
        IF k \in DOMAIN conns THEN conns[k] \cup {c} ELSE {c}]

register_Resets(conns, c, d) ==
    [k \in (DOMAIN conns) \cup {d} |-> IF k = d THEN {c} ELSE conns[k]]

\* connect(), after accept(): create the entry if missing, add the connection
register(conns, c, d) ==
    IF d \in DOMAIN conns
    THEN [conns EXCEPT ![d] = conns[d] \cup {c}]
    ELSE [k \in (DOMAIN conns) \cup {d} |-> IF k = d THEN {c} ELSE conns[k]]

disconnect_DeletesEntry(conns, c, d) ==
    IF d \in DOMAIN conns
    THEN [k \in (DOMAIN conns) \ {d} |-> conns[k]]
    ELSE conns

disconnect_KeepsEmptyEntry(conns, c, d) ==
    IF d \in DOMAIN conns
    THEN [conns EXCEPT ![d] = conns[d] \ {c}]
    ELSE conns

\* disconnect(): discard the connection, delete the entry if it became empty
disconnect(conns, c, d) ==
    IF d \in DOMAIN conns
    THEN IF conns[d] \ {c} = {}
         THEN [k \in (DOMAIN conns) \ {d} |-> conns[k]]
         ELSE [conns EXCEPT ![d] = conns[d] \ {c}]
    ELSE conns

\* websocket_endpoint: manager.connect(websocket, document_id) up to its await
\* of websocket.accept()
ConnectCall(c, d) ==
    /\ d = ws_doc[c]
    /\ <<c, d>> \notin accepting
    /\ accepting' = accepting \cup {<<c, d>>}
    /\ UNCHANGED <<ws_doc, active_connections, sending, received, svc,
                   published>>

ConnectRegister_Replays(c, d) ==
    /\ <<c, d>> \in accepting
    /\ accepting' = accepting \ {<<c, d>>}
    /\ active_connections' = register(active_connections, c, d)
    /\ received' = IF published[d] = <<>> THEN received
                   ELSE [received EXCEPT ![c] =
                            Append(@, [doc |-> d, seq |-> Len(published[d]),
                                       data |-> published[d][Len(published[d])]])]
    /\ UNCHANGED <<ws_doc, sending, svc, published>>

\* accept() returned: the rest of connect()
ConnectRegister(c, d) ==
    /\ <<c, d>> \in accepting
    /\ accepting' = accepting \ {<<c, d>>}
    /\ active_connections' = register(active_connections, c, d)
    /\ UNCHANGED <<ws_doc, sending, received, svc, published>>

\* accept() raised: connect() propagates it, nothing is registered
ConnectAcceptRaises(c, d) ==
    /\ <<c, d>> \in accepting
    /\ accepting' = accepting \ {<<c, d>>}
    /\ UNCHANGED <<ws_doc, active_connections, sending, received, svc,
                   published>>

\* websocket_endpoint's except clauses: manager.disconnect(websocket, document_id)
Disconnect(c, d) ==
    /\ d = ws_doc[c]
    /\ active_connections' = disconnect(active_connections, c, d)
    /\ UNCHANGED <<ws_doc, accepting, sending, received, svc, published>>

\* the send_progress calls in flight for document id d
InFlight(d) == {call \in sending : call.doc = d}

\* a send_progress call suspended in its loop: the payload, the copy of the
\* set it iterates over, the connections of the copy still to come, and those
\* whose send_json raised.  seq numbers the calls made for the document.
\* awaiting is the connection whose send_json the call is suspended in, where
\* an iteration is taken in two steps (the call and the return of send_json).
SendCall(d, data, connections) ==
    [doc |-> d, seq |-> Len(published[d]) + 1, data |-> data,
     snapshot |-> connections, todo |-> connections, failed |-> {},
     awaiting |-> "none"]

send_progress_AllConnections(d, data) ==
    /\ published' = [published EXCEPT ![d] = Append(@, data)]
    /\ IF d \notin DOMAIN active_connections
       THEN sending' = sending
       ELSE sending' = sending \cup
                {SendCall(d, data, UNION {active_connections[k] :
                                            k \in DOMAIN active_connections})}

\* send_progress(document_id, data) up to its first await: return at once if
\* the id has no entry, else copy the set and iterate over the copy (a loop
\* over an empty copy returns at once too)
send_progress(d, data) ==
    /\ published' = [published EXCEPT ![d] = Append(@, data)]
    /\ IF d \notin DOMAIN active_connections
       THEN sending' = sending
       ELSE IF active_connections[d] = {}
            THEN sending' = sending
            ELSE sending' = sending \cup
                    {SendCall(d, data, active_connections[d])}

\* a loop that ends when it meets a connection that is no longer registered
AfterSend_Aborts(call, c, raised) ==
    (sending \ {call}) \cup
        IF call.todo = {c} \/ c \notin Registered(call.doc) THEN {}
        ELSE {[call EXCEPT !.todo = call.todo \ {c},
                           !.failed = IF raised THEN call.failed \cup {c}
                                      ELSE call.failed]}

\* a loop over the set itself: the connections registered since the call
\* was made are still to come
AfterSend_LiveSet(call, c, raised) ==
    (sending \ {call}) \cup
        LET rest == (call.todo \cup (Registered(call.doc) \ call.snapshot)) \ {c}
        IN IF rest = {} THEN {}
           ELSE {[call EXCEPT !.todo = rest,
                              !.failed = IF raised THEN call.failed \cup {c}
                                         ELSE call.failed]}

\* the calls in flight after the loop iteration of call for connection c: the
\* loop ends, and the call returns, with the last connection of the copy
AfterSend(call, c, raised) ==
    (sending \ {call}) \cup
        IF call.todo = {c} THEN {}
        ELSE {[call EXCEPT !.todo = call.todo \ {c},
                           !.failed = IF raised THEN call.failed \cup {c}
                                      ELSE call.failed]}

\* number of payloads delivered so far to the connections in S
RECURSIVE DeliveredTo(_)
DeliveredTo(S) ==
    IF S = {} THEN 0
    ELSE LET c == CHOOSE x \in S : TRUE
         IN Len(received[c]) + DeliveredTo(S \ {c})
Deliveries == DeliveredTo(Conns)

\* one iteration of the for loop: await connection.send_json(data) returns
SendDelivered(call, c) ==
    /\ call \in sending
    /\ c \in call.todo
    /\ Deliveries < MaxDeliveries
    /\ received' = [received EXCEPT ![c] =
            Append(@, [doc |-> call.doc, seq |-> call.seq, data |-> call.data])]
    /\ sending' = AfterSend(call, c, FALSE)
    /\ UNCHANGED <<ws_doc, active_connections, accepting, svc, published>>

SendRaises_NoDisconnect(call, c) ==
    /\ call \in sending
    /\ c \in call.todo
    /\ sending' = AfterSend(call, c, TRUE)
    /\ UNCHANGED <<ws_doc, active_connections, accepting, received, svc,
                   published>>

\* one iteration of the for loop: send_json raises, the except clause calls
\* self.disconnect(connection, document_id) and the loop goes on
SendRaises(call, c) ==
    /\ call \in sending
    /\ c \in call.todo
    /\ active_connections' = disconnect(active_connections, c, call.doc)
    /\ sending' = AfterSend(call, c, TRUE)
    /\ UNCHANGED <<ws_doc, accepting, received, svc, published>>

\* ---------------------------------------------------------------- service
\* DocumentService.process_document(document_id, ...): query the document,
\* raise ValueError if there is none, else run the pipeline with a callback
\* that awaits manager.send_progress.
\* stored is the set of ids the Store has a row for.
process_document(d, stored) ==
    /\ svc[d] = "none"
    /\ svc' = [svc EXCEPT ![d] = IF d \in stored THEN "running"
                                 ELSE "raised_not_found"]
    /\ UNCHANGED <<ws_doc, active_connections, accepting, sending, received,
                   published>>

ServiceProcessDocument(d) == process_document(d, StoreDocs)

\* the collaborator whose failure is notified after k stage events
StageSite == <<"extract", "classify", "chunk", "embed", "store">>

\* the payload of the run's next call of progress_callback: the next stage in
\* order, or 'failed' when the stage notified last has raised
NextEvents(k) ==
    {ProgressEvent(StageOrder[k + 1], StageProgress[k + 1], NULL)}
    \cup IF k \in 1..Len(StageSite)
         THEN {ProgressEvent("failed", 0, MsgOf(StageSite[k]))}
         ELSE {}

RunNotify_NotAwaited(d) ==
    /\ svc[d] = "running"
    /\ LET k == Len(published[d]) IN
       /\ k > 0 => published[d][k].stage \notin Terminal
       /\ \E e \in NextEvents(k) : send_progress(d, e)
    /\ UNCHANGED <<ws_doc, active_connections, accepting, received, svc>>

\* the run's next call of progress_callback (pipeline.py:86-177), which awaits
\* manager.send_progress: the pipeline awaits the callback, so no call is made
\* while one is in flight, and none after a terminal event
RunNotify(d) ==
    /\ svc[d] = "running"
    /\ InFlight(d) = {}
    /\ LET k == Len(published[d]) IN
       /\ k > 0 => published[d][k].stage \notin Terminal
       /\ \E e \in NextEvents(k) : send_progress(d, e)
    /\ UNCHANGED <<ws_doc, active_connections, accepting, received, svc>>

\* no run, no connection; each WebSocket was opened on the route of one id
RegistryInit ==
    /\ doc_exists = FALSE
    /\ row = UploadedRow
    /\ other_row = OtherRow
    /\ sess = UploadedRow
    /\ chunks = <<>>
    /\ pending = <<>>
    /\ pc = "idle"
    /\ run = 0
    /\ has_callback = FALSE
    /\ events = <<>>
    /\ exc = NoExc
    /\ extracted = [sections |-> <<>>, tables |-> 0]
    /\ all_chunks = <<>>
    /\ embeddings = <<>>
    /\ outcome = [kind |-> "none"]
    /\ ws_doc \in [Conns -> Docs]
    /\ active_connections = <<>>
    /\ accepting = {}
    /\ sending = {}
    /\ received = [c \in Conns |-> <<>>]
    /\ svc = [d \in Docs |-> "none"]
    /\ published = [d \in Docs |-> <<>>]
    /\ FnIdle
    /\ UploadIdle
    /\ EndpointIdle

RegistryNext ==
    \/ \E c \in Conns, d \in Docs : ConnectCall(c, d) /\ UNCHANGED <<vars, fn_vars, up_vars, ep_vars>>
    \/ \E c \in Conns, d \in Docs : ConnectRegister(c, d) /\ UNCHANGED <<vars, fn_vars, up_vars, ep_vars>>
    \/ \E c \in Conns, d \in Docs : ConnectAcceptRaises(c, d) /\ UNCHANGED <<vars, fn_vars, up_vars, ep_vars>>
    \/ \E c \in Conns, d \in Docs : Disconnect(c, d) /\ UNCHANGED <<vars, fn_vars, up_vars, ep_vars>>
    \/ \E call \in sending, c \in Conns : SendDelivered(call, c) /\ UNCHANGED <<vars, fn_vars, up_vars, ep_vars>>
    \/ \E call \in sending, c \in Conns : SendRaises(call, c) /\ UNCHANGED <<vars, fn_vars, up_vars, ep_vars>>
    \/ \E d \in Docs : ServiceProcessDocument(d) /\ UNCHANGED <<vars, fn_vars, up_vars, ep_vars>>
    \/ \E d \in Docs : RunNotify(d) /\ UNCHANGED <<vars, fn_vars, up_vars, ep_vars>>

SpecRegistry == RegistryInit /\ [][RegistryNext]_<<vars, reg_vars>>

\* ================================================================ functions on their own
\* ---------------------------------------------------------------- embedder
\* The vector the embedding model computes for one text.
Embedding(text) == <<"embedding", text>>

\* embed_model.get_text_embedding_batch(batch): one vector per text of the
\* batch, in the order of the batch
get_text_embedding_batch(batch) ==
    [k \in 1..Len(batch) |-> Embedding(batch[k])]

\* _generate_batch from offset i on:
\*   for i in range(0, len(texts), batch_size):
\*       batch = texts[i:i + batch_size]; all_embeddings.extend(model(batch))
\* with the number of calls made to the model
RECURSIVE generate_batch_from(_, _, _)
generate_batch_from(texts, i, batch_size) ==
    IF i >= Len(texts)
    THEN [all_embeddings |-> <<>>, model_calls |-> 0]
    ELSE LET batch == SubSeq(texts, i + 1, Min(i + batch_size, Len(texts)))
             rest == generate_batch_from(texts, i + batch_size, batch_size)
         IN [all_embeddings |->
                 get_text_embedding_batch(batch) \o rest.all_embeddings,
             model_calls |-> 1 + rest.model_calls]

generate_batch(texts, batch_size) == generate_batch_from(texts, 0, batch_size)

generate_embeddings_Unbatched(texts, batch_size) ==
    IF texts = <<>>
    THEN [all_embeddings |-> <<>>, model_calls |-> 0]
    ELSE [all_embeddings |->
              get_text_embedding_batch(
                  SubSeq(texts, 1, Min(batch_size, Len(texts)))),
          model_calls |-> 1]

\* generate_embeddings(texts, batch_size) with an embedding model that
\* returns one vector per text: [] for no texts, else _generate_batch
generate_embeddings_batched(texts, batch_size) ==
    IF texts = <<>>
    THEN [all_embeddings |-> <<>>, model_calls |-> 0]
    ELSE generate_batch(texts, batch_size)

\* ---------------------------------------------------------------- classifier
\* get_cpc_hints: the static label -> hints table
cpc_mapping ==
    [d \in {"software", "mechanical", "electrical", "chemical",
            "biotechnology", "medical", "telecommunications", "optics"} |->
        CASE d = "software" -> <<"G06F">>
          [] d = "mechanical" -> <<"F16">>
          [] d = "electrical" -> <<"H01", "H02">>
          [] d = "chemical" -> <<"C07", "C08">>
          [] d = "biotechnology" -> <<"C12">>
          [] d = "medical" -> <<"A61">>
          [] d = "telecommunications" -> <<"H04">>
          [] d = "optics" -> <<"G02">>]

\* the labels a domain list can hold: those of the table and 'general'
Labels == (DOMAIN cpc_mapping) \cup {"general"}

\* the loop of get_cpc_hints: cpc_hints.extend(cpc_mapping[domain]) for the
\* domains that are in the table
RECURSIVE cpc_hints_extended(_)
cpc_hints_extended(domains) ==
    IF domains = <<>> THEN <<>>
    ELSE (IF Head(domains) \in DOMAIN cpc_mapping
          THEN cpc_mapping[Head(domains)] ELSE <<>>)
         \o cpc_hints_extended(Tail(domains))

\* set(a_list)
SetOf(list) == {list[k] : k \in 1..Len(list)}

\* list(a_set): the lists that hold every member once, in any order
ListsOf(S) ==
    {q \in [1..Cardinality(S) -> S] :
        \A i \in DOMAIN q : \A j \in DOMAIN q : i # j => q[i] # q[j]}

get_cpc_hints_NoDedup(domains) == {cpc_hints_extended(domains)}

\* get_cpc_hints(domains): the lists list(set(cpc_hints)) can be
get_cpc_hints(domains) == ListsOf(SetOf(cpc_hints_extended(domains)))

\* ---------------------------------------------------------------- extractor
\* A text is a sequence of characters.  str.lower() on the characters used
\* here:
Lower(ch) == IF ch = "A" THEN "a" ELSE IF ch = "I" THEN "i" ELSE ch

SectionNameLen == 50

\* element.text.lower().replace(' ', '_')[:50]
section_name(text) ==
    [i \in 1..Min(Len(text), SectionNameLen) |->
        IF Lower(text[i]) = " " THEN "_" ELSE Lower(text[i])]

Introduction == <<"i", "n", "t", "r", "o", "d", "u", "c", "t", "i", "o", "n">>

\* The sections dict, in insertion order: a sequence of entries, one per key.
HasKey(dict, key) == \E i \in DOMAIN dict : dict[i].name = key

GetItem(dict, key) == dict[CHOOSE i \in DOMAIN dict : dict[i].name = key].texts

\* dict[key] = value: a new key goes last, a key present keeps its place
SetItem(dict, key, value) ==
    IF HasKey(dict, key)
    THEN [i \in DOMAIN dict |-> IF dict[i].name = key
                                THEN [name |-> key, texts |-> value]
                                ELSE dict[i]]
    ELSE Append(dict, [name |-> key, texts |-> value])

\* sections[current_section].append(text), after the check that creates the
\* entry if it is missing
AppendItem(dict, key, text) ==
    LET present == IF HasKey(dict, key) THEN dict ELSE SetItem(dict, key, <<>>)
    IN SetItem(present, key, Append(GetItem(present, key), text))

\* _extract_element_metadata: the element's metadata as a dict, {} if none
extract_element_metadata(element) == element.metadata

\* one iteration of the loop over elements
organize_element(st, element) ==
    IF element.type = "Title"
    THEN [st EXCEPT !.current_section = section_name(element.text),
                    !.sections = SetItem(st.sections,
                                         section_name(element.text), <<>>),
                    !.all_text = Append(@, element.text)]
    ELSE IF element.type \in {"NarrativeText", "ListItem"}
    THEN [st EXCEPT !.sections = AppendItem(st.sections, st.current_section,
                                            element.text),
                    !.all_text = Append(@, element.text)]
    ELSE IF element.type = "Table"
    THEN [st EXCEPT !.tables =
                        Append(@, [text |-> element.text,
                                   metadata |-> extract_element_metadata(element)]),
                    !.all_text = Append(@, element.text)]
    ELSE st

RECURSIVE organize_from(_, _)
organize_from(elements, st) ==
    IF elements = <<>> THEN st
    ELSE organize_from(Tail(elements), organize_element(st, Head(elements)))

\* '\n\n'.join(all_text)
RECURSIVE JoinText(_)
JoinText(texts) ==
    IF texts = <<>> THEN <<>>
    ELSE IF Len(texts) = 1 THEN texts[1]
    ELSE texts[1] \o <<"\n", "\n">> \o JoinText(Tail(texts))

\* _organize_elements(elements)
organize_elements(elements) ==
    LET st == organize_from(elements,
                  [sections |-> <<[name |-> Introduction, texts |-> <<>>]>>,
                   tables |-> <<>>,
                   all_text |-> <<>>,
                   current_section |-> Introduction])
    IN [sections |-> st.sections,
        tables |-> st.tables,
        metadata |-> [total_sections |-> Len(st.sections),
                      total_tables |-> Len(st.tables)],
        full_text |-> JoinText(st.all_text)]

\* ---------------------------------------------------------------- token estimate
Whitespace == {" ", "\n", "\t"}

\* len(text.split()): the runs of characters that are not whitespace
word_count(text) ==
    Cardinality({i \in 1..Len(text) :
                    /\ text[i] \notin Whitespace
                    /\ (i = 1 \/ text[i - 1] \in Whitespace)})

\* words * 1.33 is a multiplication of doubles.  The double of the literal
\* 1.33 is Mantissa * 2^-FractionBits, a significand of Precision bits; the
\* significand and the product are written in digits of DigitBits bits,
\* least significant first.
DigitBits == 16
Precision == 53
FractionBits == 52
Mantissa == <<57672, 5242, 18350, 21>>

RECURSIVE Pow2(_)
Pow2(k) == IF k = 0 THEN 1 ELSE 2 * Pow2(k - 1)

\* the exact product number * w, for 0 <= w < 2^15
RECURSIVE Times(_, _, _)
Times(number, w, carry) ==
    IF number = <<>>
    THEN IF carry = 0 THEN <<>> ELSE <<carry>>
    ELSE LET p == Head(number) * w + carry
         IN <<p % Pow2(DigitBits)>> \o Times(Tail(number), w, p \div Pow2(DigitBits))

\* bit k of number, bit 0 the least significant
Bit(number, k) ==
    IF (k \div DigitBits) + 1 > Len(number) THEN 0
    ELSE (number[(k \div DigitBits) + 1] \div Pow2(k % DigitBits)) % 2

BitLength(number) ==
    LET set == {k \in 0..(DigitBits * Len(number) - 1) : Bit(number, k) = 1}
    IN IF set = {} THEN 0
       ELSE 1 + CHOOSE k \in set : \A j \in set : j <= k

\* the value of the bits from bit low upwards
RECURSIVE BitsFrom(_, _)
BitsFrom(number, low) ==
    IF low >= BitLength(number) THEN 0
    ELSE Bit(number, low) + 2 * BitsFrom(number, low + 1)

\* a conversion that rounds up whenever the double has a fraction
IntOfDouble_Up(product) ==
    BitsFrom(product, FractionBits) +
        IF \E k \in 0..(FractionBits - 1) : Bit(product, k) = 1 THEN 1 ELSE 0

\* int(x) of the double x nearest to product * 2^-FractionBits: the product
\* is rounded to Precision bits, ties to the even significand, by dropping
\* its low bits; the integer part grows by one when the rounding carries
\* into it
IntOfDouble(product) ==
    LET length == BitLength(product)
        dropped == IF length > Precision THEN length - Precision ELSE 0
        up == /\ dropped > 0
              /\ Bit(product, dropped - 1) = 1
              /\ \/ Bit(product, dropped) = 1
                 \/ \E k \in 0..(dropped - 2) : Bit(product, k) = 1
        carries == up /\ \A k \in dropped..(FractionBits - 1) : Bit(product, k) = 1
    IN BitsFrom(product, FractionBits) + IF carries THEN 1 ELSE 0

\* an estimate that rounds to the nearest integer
estimate_tokens_Round(text) == (133 * word_count(text) + 50) \div 100

\* _estimate_tokens(text): int(words * 1.33)
estimate_tokens(text) == IntOfDouble(Times(Mantissa, word_count(text), 0))

\* ---------------------------------------------------------------- calls
Texts == {"text1", "text2"}

\* the elements the partitioner returns: Title, NarrativeText, ListItem and
\* Table elements, with their texts; two long titles differ only after the
\* first SectionNameLen characters
LongTitle(last) ==
    [i \in 1..(SectionNameLen + 1) |-> IF i > SectionNameLen THEN last ELSE "a"]

TitleTexts == {<<"A">>, <<"a">>, <<"a", " ", "b">>,
               <<"I", "n", "t", "r", "o", "d", "u", "c", "t", "i", "o", "n">>,
               LongTitle("b"), LongTitle("c")}

Elements ==
    {[type |-> "Title", text |-> t, metadata |-> <<>>] : t \in TitleTexts}
    \cup {[type |-> "NarrativeText", text |-> t, metadata |-> <<>>] :
            t \in {<<"x">>, <<"y">>}}
    \cup {[type |-> "ListItem", text |-> <<"z">>, metadata |-> <<>>]}
    \cup {[type |-> "Table", text |-> t, metadata |-> m] :
            t \in {<<"t">>, <<"u">>}, m \in {<<>>, [page_number |-> 1]}}

\* n words, one space between two
WordsText(n) == [i \in 1..(2 * n - 1) |-> IF i % 2 = 1 THEN "w" ELSE " "]

\* the texts passed to _estimate_tokens: every short text, and texts of up
\* to MaxWords words
EstimateTexts ==
    SeqsUpTo({"a", " ", "\n"}, MaxChars)
    \cup {WordsText(n) : n \in 1..MaxWords}

\* the calls made on their own, with their arguments
FnCalls ==
    {[fn |-> "chunk", sections |-> s, tables |-> t] :
        s \in SeqsUpTo({EmptySection} \cup (0..MaxFnNodes), MaxFnSections),
        t \in 0..MaxFnTables}
    \cup {[fn |-> "generate_embeddings", texts |-> x, batch_size |-> b] :
            x \in SeqsUpTo(Texts, MaxTexts), b \in 1..MaxBatchSize}
    \cup {[fn |-> "get_cpc_hints", domains |-> d] :
            d \in SeqsUpTo(Labels, MaxDomains)}
    \cup {[fn |-> "organize_elements", elements |-> e] :
            e \in SeqsUpTo(Elements, MaxElements)}
    \cup {[fn |-> "estimate_tokens", text |-> t] : t \in EstimateTexts}

CallChunker_TablesFirst ==
    /\ fn_call.fn = "chunk"
    /\ fn_result = <<>>
    /\ LET section_chunks == chunk_sections(fn_call.sections)
           table_chunks == chunk_tables(fn_call.tables)
       IN fn_result' = <<[section_chunks |-> section_chunks,
                          table_chunks |-> table_chunks,
                          all_chunks |-> table_chunks \o section_chunks]>>
    /\ UNCHANGED fn_call

\* chunk_sections and chunk_tables, and the pipeline's concatenation
CallChunker ==
    /\ fn_call.fn = "chunk"
    /\ fn_result = <<>>
    /\ LET section_chunks == chunk_sections(fn_call.sections)
           table_chunks == chunk_tables(fn_call.tables)
       IN fn_result' = <<[section_chunks |-> section_chunks,
                          table_chunks |-> table_chunks,
                          all_chunks |-> section_chunks \o table_chunks]>>
    /\ UNCHANGED fn_call

CallEmbedder ==
    /\ fn_call.fn = "generate_embeddings"
    /\ fn_result = <<>>
    /\ fn_result' =
           <<generate_embeddings_batched(fn_call.texts, fn_call.batch_size)>>
    /\ UNCHANGED fn_call

\* get_cpc_hints, called once and then once more with the same list
CallCpcHints ==
    /\ fn_call.fn = "get_cpc_hints"
    /\ Len(fn_result) < 2
    /\ \E hints \in get_cpc_hints(fn_call.domains) :
          fn_result' = Append(fn_result, hints)
    /\ UNCHANGED fn_call

CallOrganizeElements ==
    /\ fn_call.fn = "organize_elements"
    /\ fn_result = <<>>
    /\ fn_result' = <<organize_elements(fn_call.elements)>>
    /\ UNCHANGED fn_call

CallEstimateTokens ==
    /\ fn_call.fn = "estimate_tokens"
    /\ fn_result = <<>>
    /\ fn_result' = <<estimate_tokens(fn_call.text)>>
    /\ UNCHANGED fn_call

FunctionsInit ==
    /\ doc_exists = FALSE
    /\ row = UploadedRow
    /\ other_row = OtherRow
    /\ sess = UploadedRow
    /\ chunks = <<>>
    /\ pending = <<>>
    /\ pc = "idle"
    /\ run = 0
    /\ has_callback = FALSE
    /\ events = <<>>
    /\ exc = NoExc
    /\ extracted = [sections |-> <<>>, tables |-> 0]
    /\ all_chunks = <<>>
    /\ embeddings = <<>>
    /\ outcome = [kind |-> "none"]
    /\ RegistryIdle
    /\ fn_call \in FnCalls
    /\ fn_result = <<>>
    /\ UploadIdle
    /\ EndpointIdle

FunctionsNext ==
    \/ CallChunker /\ UNCHANGED <<vars, reg_vars, up_vars, ep_vars>>
    \/ CallEmbedder /\ UNCHANGED <<vars, reg_vars, up_vars, ep_vars>>
    \/ CallCpcHints /\ UNCHANGED <<vars, reg_vars, up_vars, ep_vars>>
    \/ CallOrganizeElements /\ UNCHANGED <<vars, reg_vars, up_vars, ep_vars>>
    \/ CallEstimateTokens /\ UNCHANGED <<vars, reg_vars, up_vars, ep_vars>>

SpecFunctions ==
    FunctionsInit /\ [][FunctionsNext]_<<vars, reg_vars, fn_vars, up_vars>>

\* ---------------------------------------------------------------- upload route
\* the values Document.id can take (uuid4 by the column default)
DocumentIds == 1..MaxUploads

\* upload_document up to the extension check: HTTPException(400) for a file
\* type that is not allowed
UploadValidate(r, allowed) ==
    /\ requests[r].pc = "none"
    /\ requests' = [requests EXCEPT
                       ![r].pc = IF allowed THEN "upload_and_process"
                                            ELSE "raised"]
    /\ UNCHANGED documents

\* service.upload_and_process: save the file, add a new Document with
\* processing_status "pending", commit, refresh. The primary key is a value
\* no other row has; saving or committing may raise instead.
UploadAndProcess(r) ==
    /\ requests[r].pc = "upload_and_process"
    /\ \/ \E id \in DocumentIds \ DOMAIN documents :
             /\ documents' = (id :> "pending") @@ documents
             /\ requests' = [requests EXCEPT ![r].pc = "add_task",
                                             ![r].document = id]
       \/ /\ requests' = [requests EXCEPT ![r].pc = "raised"]
          /\ UNCHANGED documents

\* the route adding the task to its BackgroundTasks twice
AddTask_Twice(r) ==
    /\ requests[r].pc = "add_task"
    /\ LET task == [document_id |-> requests[r].document,
                    state |-> "scheduled"] IN
       requests' = [requests EXCEPT
                       ![r].pc = "return",
                       ![r].background_tasks = @ \o <<task, task>>]
    /\ UNCHANGED documents

\* background_tasks.add_task(service.process_document, str(document.id), ..)
AddTask(r) ==
    /\ requests[r].pc = "add_task"
    /\ requests' = [requests EXCEPT
                       ![r].pc = "return",
                       ![r].background_tasks =
                           Append(@, [document_id |-> requests[r].document,
                                      state |-> "scheduled"])]
    /\ UNCHANGED documents

\* return document: the response is built from it (response_model) and
\* sent, or building it raises and the background tasks are dropped
ReturnDocument(r) ==
    /\ requests[r].pc = "return"
    /\ \E next \in {"responded", "raised"} :
          requests' = [requests EXCEPT ![r].pc = next]
    /\ UNCHANGED documents

\* After the response the tasks of the request run one after another:
\* the first task not yet run starts service.process_document, whose pipeline
\* run sets processing_status to "processing".
TaskStart(r) ==
    /\ requests[r].pc = "responded"
    /\ \E i \in 1..Len(requests[r].background_tasks) :
          LET tasks == requests[r].background_tasks IN
          /\ tasks[i].state = "scheduled"
          /\ \A j \in 1..(i - 1) : tasks[j].state = "finished"
          /\ requests' = [requests EXCEPT
                             ![r].background_tasks[i].state = "running"]
          /\ documents' = [documents EXCEPT
                              ![tasks[i].document_id] = "processing"]

\* process_document returns the result of the run or raises its exception
TaskFinish(r) ==
    /\ requests[r].pc = "responded"
    /\ \E i \in 1..Len(requests[r].background_tasks) :
          LET tasks == requests[r].background_tasks IN
          /\ tasks[i].state = "running"
          /\ requests' = [requests EXCEPT
                             ![r].background_tasks[i].state = "finished"]
          /\ \E status \in {"completed", "failed"} :
                documents' = [documents EXCEPT
                                 ![tasks[i].document_id] = status]

UploadInit ==
    /\ doc_exists = FALSE
    /\ row = UploadedRow
    /\ other_row = OtherRow
    /\ sess = UploadedRow
    /\ chunks = <<>>
    /\ pending = <<>>
    /\ pc = "idle"
    /\ run = 0
    /\ has_callback = FALSE
    /\ events = <<>>
    /\ exc = NoExc
    /\ extracted = [sections |-> <<>>, tables |-> 0]
    /\ all_chunks = <<>>
    /\ embeddings = <<>>
    /\ outcome = [kind |-> "none"]
    /\ RegistryIdle
    /\ FnIdle
    /\ UploadIdle
    /\ EndpointIdle

UploadNext ==
    \/ \E r \in Requests, allowed \in BOOLEAN :
          UploadValidate(r, allowed) /\ UNCHANGED <<vars, reg_vars, fn_vars, ep_vars>>
    \/ \E r \in Requests : UploadAndProcess(r) /\ UNCHANGED <<vars, reg_vars, fn_vars, ep_vars>>
    \/ \E r \in Requests : AddTask(r) /\ UNCHANGED <<vars, reg_vars, fn_vars, ep_vars>>
    \/ \E r \in Requests : ReturnDocument(r) /\ UNCHANGED <<vars, reg_vars, fn_vars, ep_vars>>
    \/ \E r \in Requests : TaskStart(r) /\ UNCHANGED <<vars, reg_vars, fn_vars, ep_vars>>
    \/ \E r \in Requests : TaskFinish(r) /\ UNCHANGED <<vars, reg_vars, fn_vars, ep_vars>>

SpecUpload ==
    UploadInit /\ [][UploadNext]_<<vars, reg_vars, fn_vars, up_vars>>

\* ---------------------------------------------------------------- websocket_endpoint
\* A WebSocket object is passed to websocket_endpoint once.  The handler
\* awaits manager.connect, then loops on receive_text and the pong it sends
\* back (an iteration of that loop changes nothing of the manager); it exits
\* when connect raises, or through one of its except clauses, which both call
\* manager.disconnect(websocket, document_id).

\* an except clause without the call of manager.disconnect
EndpointExit_NoDisconnect(c) ==
    /\ handler[c] = "receive"
    /\ handler' = [handler EXCEPT ![c] = "exited"]
    /\ UNCHANGED reg_vars

EndpointConnect(c) ==
    /\ handler[c] = "none"
    /\ ConnectCall(c, ws_doc[c])
    /\ handler' = [handler EXCEPT ![c] = "connect"]

EndpointAccepted(c) ==
    /\ handler[c] = "connect"
    /\ ConnectRegister(c, ws_doc[c])
    /\ handler' = [handler EXCEPT ![c] = "receive"]

EndpointAcceptRaises(c) ==
    /\ handler[c] = "connect"
    /\ ConnectAcceptRaises(c, ws_doc[c])
    /\ handler' = [handler EXCEPT ![c] = "exited"]

\* receive_text or the pong's send_json raised WebSocketDisconnect or another
\* Exception
EndpointExit(c) ==
    /\ handler[c] = "receive"
    /\ Disconnect(c, ws_doc[c])
    /\ handler' = [handler EXCEPT ![c] = "exited"]

EndpointNext ==
    \/ \E c \in Conns : EndpointConnect(c) /\ UNCHANGED <<vars, fn_vars, up_vars>>
    \/ \E c \in Conns : EndpointAccepted(c) /\ UNCHANGED <<vars, fn_vars, up_vars>>
    \/ \E c \in Conns : EndpointAcceptRaises(c) /\ UNCHANGED <<vars, fn_vars, up_vars>>
    \/ \E c \in Conns : EndpointExit(c) /\ UNCHANGED <<vars, fn_vars, up_vars>>
    \/ \E call \in sending, c \in Conns : SendDelivered(call, c) /\ UNCHANGED <<vars, fn_vars, up_vars, ep_vars>>
    \/ \E call \in sending, c \in Conns : SendRaises(call, c) /\ UNCHANGED <<vars, fn_vars, up_vars, ep_vars>>
    \/ \E d \in Docs : ServiceProcessDocument(d) /\ UNCHANGED <<vars, fn_vars, up_vars, ep_vars>>
    \/ \E d \in Docs : RunNotify(d) /\ UNCHANGED <<vars, fn_vars, up_vars, ep_vars>>

SpecEndpoint == RegistryInit /\ [][EndpointNext]_<<vars, reg_vars, ep_vars>>

\* ---------------------------------------------------------------- runs of two documents
\* The connection manager with both document ids uploaded, so that a run of
\* each is in progress at the same time.
\* one WebSocket opened on the route of each id
TwoRunsInit ==
    /\ doc_exists = FALSE
    /\ row = UploadedRow
    /\ other_row = OtherRow
    /\ sess = UploadedRow
    /\ chunks = <<>>
    /\ pending = <<>>
    /\ pc = "idle"
    /\ run = 0
    /\ has_callback = FALSE
    /\ events = <<>>
    /\ exc = NoExc
    /\ extracted = [sections |-> <<>>, tables |-> 0]
    /\ all_chunks = <<>>
    /\ embeddings = <<>>
    /\ outcome = [kind |-> "none"]
    /\ ws_doc = [c \in Conns |-> IF c = "ws1" THEN "doc1" ELSE "doc2"]
    /\ active_connections = <<>>
    /\ accepting = {}
    /\ sending = {}
    /\ received = [c \in Conns |-> <<>>]
    /\ svc = [d \in Docs |-> "none"]
    /\ published = [d \in Docs |-> <<>>]
    /\ FnIdle
    /\ UploadIdle
    /\ EndpointIdle

TwoRunsNext ==
    \/ \E c \in Conns, d \in Docs : ConnectCall(c, d) /\ UNCHANGED <<vars, fn_vars, up_vars, ep_vars>>
    \/ \E c \in Conns, d \in Docs : ConnectRegister(c, d) /\ UNCHANGED <<vars, fn_vars, up_vars, ep_vars>>
    \/ \E c \in Conns, d \in Docs : ConnectAcceptRaises(c, d) /\ UNCHANGED <<vars, fn_vars, up_vars, ep_vars>>
    \/ \E c \in Conns, d \in Docs : Disconnect(c, d) /\ UNCHANGED <<vars, fn_vars, up_vars, ep_vars>>
    \/ \E call \in sending, c \in Conns : SendDelivered(call, c) /\ UNCHANGED <<vars, fn_vars, up_vars, ep_vars>>
    \/ \E call \in sending, c \in Conns : SendRaises(call, c) /\ UNCHANGED <<vars, fn_vars, up_vars, ep_vars>>
    \/ \E d \in Docs : process_document(d, Docs) /\ UNCHANGED <<vars, fn_vars, up_vars, ep_vars>>
    \/ \E d \in Docs : RunNotify(d) /\ UNCHANGED <<vars, fn_vars, up_vars, ep_vars>>

SpecTwoRuns == TwoRunsInit /\ [][TwoRunsNext]_<<vars, reg_vars>>

\* ---------------------------------------------------------------- a subscriber that stops reading
\* The connection manager and the service run again, with the loop iteration
\* of send_progress taken in two steps, and one subscriber whose client has
\* stopped reading: an awaited send_json to it never returns and never raises.
\* The other connections are healthy: accept() and send_json return.
Stalled == "ws1"

\* the for loop of call takes connection c from the copy, calls
\* connection.send_json(data) and is suspended in the await
SendAwait(call, c) ==
    /\ call \in sending
    /\ call.awaiting = "none"
    /\ c \in call.todo
    /\ sending' = (sending \ {call}) \cup {[call EXCEPT !.awaiting = c]}
    /\ UNCHANGED <<ws_doc, active_connections, accepting, received, svc,
                   published>>

\* the awaited send_json returns: the payload is delivered and the loop goes
\* on, or ends with the last connection of the copy
SendReturns(call) ==
    /\ call \in sending
    /\ call.awaiting \notin {"none", Stalled}
    /\ LET c == call.awaiting IN
       /\ received' = [received EXCEPT ![c] =
              Append(@, [doc |-> call.doc, seq |-> call.seq, data |-> call.data])]
       /\ sending' = (sending \ {call}) \cup
                        IF call.todo = {c} THEN {}
                        ELSE {[call EXCEPT !.todo = call.todo \ {c},
                                           !.awaiting = "none"]}
    /\ UNCHANGED <<ws_doc, active_connections, accepting, svc, published>>

StalledNext ==
    \/ \E c \in Conns, d \in Docs : ConnectCall(c, d) /\ UNCHANGED <<vars, fn_vars, up_vars, ep_vars>>
    \/ \E c \in Conns, d \in Docs : ConnectRegister(c, d) /\ UNCHANGED <<vars, fn_vars, up_vars, ep_vars>>
    \/ \E c \in Conns, d \in Docs : Disconnect(c, d) /\ UNCHANGED <<vars, fn_vars, up_vars, ep_vars>>
    \/ \E call \in sending, c \in Conns : SendAwait(call, c) /\ UNCHANGED <<vars, fn_vars, up_vars, ep_vars>>
    \/ \E call \in sending : SendReturns(call) /\ UNCHANGED <<vars, fn_vars, up_vars, ep_vars>>
    \/ \E d \in Docs : ServiceProcessDocument(d) /\ UNCHANGED <<vars, fn_vars, up_vars, ep_vars>>
    \/ \E d \in Docs : RunNotify(d) /\ UNCHANGED <<vars, fn_vars, up_vars, ep_vars>>

\* The event loop runs every task that is ready: a connect whose accept()
\* has returned registers, a loop that is not suspended goes on to its next
\* connection, a send_json to a healthy connection returns, and the run
\* makes its next call.  Clients connect and disconnect as they like.
StalledFairness ==
    /\ WF_<<vars, reg_vars, fn_vars, up_vars>>(
           \E c \in Conns, d \in Docs :
               ConnectRegister(c, d) /\ UNCHANGED <<vars, fn_vars, up_vars, ep_vars>>)
    /\ WF_<<vars, reg_vars, fn_vars, up_vars>>(
           \E call \in sending, c \in Conns :
               SendAwait(call, c) /\ UNCHANGED <<vars, fn_vars, up_vars, ep_vars>>)
    /\ WF_<<vars, reg_vars, fn_vars, up_vars>>(
           \E call \in sending :
               SendReturns(call) /\ UNCHANGED <<vars, fn_vars, up_vars, ep_vars>>)
    /\ WF_<<vars, reg_vars, fn_vars, up_vars>>(
           \E d \in Docs :
               ServiceProcessDocument(d) /\ UNCHANGED <<vars, fn_vars, up_vars, ep_vars>>)
    /\ WF_<<vars, reg_vars, fn_vars, up_vars>>(
           \E d \in Docs : RunNotify(d) /\ UNCHANGED <<vars, fn_vars, up_vars, ep_vars>>)

SpecStalled ==
    /\ UploadInit
    /\ [][StalledNext]_<<vars, reg_vars, fn_vars, up_vars>>
    /\ StalledFairness

\* ================================================================ properties

EventsOf(stages) == SelectSeq(events, LAMBDA ev : ev.stage \in stages)

\* DocumentChunk rows persisted by the current run
RunChunks == SelectSeq(chunks, LAMBDA c : c.run = run)

\* the run has handed control back to its caller
RunOver == pc = "done"

\* positions of the run at which the row still shows what this run committed
AfterStoreCommit == pc \in {"notify_complete", "return", "except", "done"}

\* C1: when a run with a progress callback is over, exactly one terminal
\* event ('complete' or 'failed') has been passed to the callback.
C1_ExactlyOneTerminalEvent ==
    (RunOver /\ has_callback) => Len(EventsOf(Terminal)) = 1

\* C2: when a run on an existing document is over and a step of it raised,
\* the row is persisted 'failed' with processing_error = str(e), exactly one
\* 'failed' event (progress 0, error = str(e)) was emitted, and the caller
\* received the original exception e.
C2_FailureReported ==
    (RunOver /\ doc_exists /\ exc # NoExc) =>
        /\ row.processing_status = "failed"
        /\ row.processing_error = exc.msg
        /\ has_callback =>
              EventsOf({"failed"}) = <<ProgressEvent("failed", 0, exc.msg)>>
        /\ outcome = [kind |-> "raised", exception |-> exc]

\* C3: whenever the row is persisted 'failed' by a run, no DocumentChunk of
\* that run is persisted.
C3_FailedRunPersistsNoChunks ==
    (row.processing_status = "failed" /\ pc \in {"notify_failed", "done"}) =>
        RunChunks = <<>>

\* C4: whenever the row is persisted 'completed' by a run, the number of
\* DocumentChunks persisted by that run equals metadata.total_chunks, which
\* equals the number of section chunks plus the number of table chunks.
C4_CompletedChunkCount ==
    (row.processing_status = "completed" /\ AfterStoreCommit) =>
        /\ "total_chunks" \in DOMAIN row.metadata
        /\ Len(RunChunks) = row.metadata["total_chunks"]
        /\ row.metadata["total_chunks"] =
              Len(chunk_sections(extracted.sections))
              + Len(chunk_tables(extracted.tables))

\* C5: every change of the persisted processing_status is pending ->
\* processing, processing -> completed or processing -> failed.
StatusStep(a, b) ==
    \/ a = b
    \/ a = "pending" /\ b = "processing"
    \/ a = "processing" /\ b \in {"completed", "failed"}

C5_StatusTransitions ==
    [][StatusStep(row.processing_status, row'.processing_status)]_vars

\* C6: in every persisted state processed_at is non-null iff
\* processing_status = 'completed'.
C6_ProcessedAtIffCompleted ==
    (row.processed_at # NULL) <=> (row.processing_status = "completed")

\* C7: in every persisted state processing_error is non-null iff
\* processing_status = 'failed'.
C7_ErrorIffFailed ==
    (row.processing_error # NULL) <=> (row.processing_status = "failed")

C9_StageOrder ==
    LET n == Len(events)
        body == IF n > 0 /\ events[n].stage = "failed"
                THEN SubSeq(events, 1, n - 1) ELSE events
    IN /\ Len(body) <= Len(StageOrder)
       /\ \A i \in 1..Len(body) : body[i].stage = StageOrder[i]
       /\ \A i \in 1..n : events[i].stage \in Terminal => i = n

\* C10: in one run every event's progress is an integer in 0..100, a 'failed'
\* event carries 0, and the other events carry 20, 35, 50, 70, 85, 100 in
\* that order (so they never decrease).
C10_ProgressMonotone ==
    LET others == SelectSeq(events, LAMBDA ev : ev.stage # "failed")
    IN /\ \A i \in 1..Len(events) :
             /\ events[i].progress \in 0..100
             /\ events[i].stage = "failed" => events[i].progress = 0
       /\ Len(others) <= Len(StageProgress)
       /\ \A i \in 1..Len(others) : others[i].progress = StageProgress[i]
       /\ \A i, j \in 1..Len(others) :
             i < j => others[i].progress <= others[j].progress

\* a run that emitted all six stages and then 'failed'
C10_Witness ==
    /\ Len(events) = 7
    /\ events[6].progress = 100
    /\ events[7].stage = "failed"
    /\ events[7].progress = 0

\* C11: for a document id unknown to the Store, the run never gets past the
\* query (no collaborator is called, nothing is extracted, chunked or
\* embedded), changes no row and persists no chunk, passes the callback
\* nothing but one 'failed' event of progress 0, and raises to its caller.
C11_UnknownDocument ==
    ~doc_exists =>
        /\ pc \in {"idle", "load", "except", "notify_failed", "done"}
        /\ row = UploadedRow /\ sess = UploadedRow
        /\ chunks = <<>> /\ pending = <<>>
        /\ extracted = [sections |-> <<>>, tables |-> 0]
        /\ all_chunks = <<>> /\ embeddings = <<>>
        /\ Len(events) <= 1
        /\ \A i \in 1..Len(events) :
              events[i] = ProgressEvent("failed", 0, MsgOf("load"))
        /\ RunOver =>
              /\ outcome.kind = "raised"
              /\ has_callback => Len(events) = 1

\* a finished run on an unknown document that was given a callback
C11_Witness ==
    /\ ~doc_exists /\ RunOver /\ has_callback
    /\ events = <<ProgressEvent("failed", 0, "Document not found")>>
    /\ outcome.kind = "raised"

\* ---------------------------------------------------------------- registry
all_vars == <<vars, reg_vars, fn_vars, up_vars>>

\* how many times the payload of call n for document d is in a connection's log
CountIn(log, d, n) ==
    Cardinality({i \in 1..Len(log) : log[i].doc = d /\ log[i].seq = n})

\* the connections registered under d in a registry
RegisteredIn(conns, d) == IF d \in DOMAIN conns THEN conns[d] ELSE {}

\* the part of a connection's log that belongs to document d
DocLog(log, d) == SelectSeq(log, LAMBDA m : m.doc = d)

\* 'complete' has been passed to send_progress for document d
CompletePublished(d) ==
    \E i \in 1..Len(published[d]) : published[d][i].stage = "complete"

\* C12: DocumentService.process_document raises for a document id that has
\* no row only after a 'failed' event has been published for that id.
C12_FailedPublishedBeforeRaise ==
    \A d \in Docs :
        svc[d] = "raised_not_found" =>
            \E i \in 1..Len(published[d]) : published[d][i].stage = "failed"

\* while a send_progress call is in its loop, its payload is in the log of a
\* connection once if the connection is in the copy, its turn has come and
\* its send_json returned, and not at all otherwise
C13_InFlight ==
    \A call \in sending, c \in Conns :
        CountIn(received[c], call.doc, call.seq) =
            IF c \in call.snapshot \ (call.todo \cup call.failed) THEN 1 ELSE 0

\* every delivered payload is the one passed to send_progress, delivered once
C13_Payload ==
    \A c \in Conns : \A i \in 1..Len(received[c]) :
        LET m == received[c][i] IN
            /\ m.seq \in 1..Len(published[m.doc])
            /\ m.data = published[m.doc][m.seq]
            /\ CountIn(received[c], m.doc, m.seq) = 1

\* a call that enters its loop iterates over the connections registered
\* under its document id at that moment
C13_Call ==
    \A call \in sending' \ sending :
        (\A old \in sending : old.doc # call.doc \/ old.seq # call.seq) =>
            /\ call.snapshot = Registered(call.doc)
            /\ call.todo = call.snapshot
            /\ call.failed = {}
            /\ published'[call.doc] = Append(published[call.doc], call.data)

\* when a call returns, exactly the connections of its copy whose send_json
\* returned have its payload, once
C13_Return ==
    \A call \in sending :
        (\A new \in sending' : new.doc # call.doc \/ new.seq # call.seq) =>
            \A c \in Conns :
                CountIn(received'[c], call.doc, call.seq) =
                    IF /\ c \in call.snapshot \ call.failed
                       /\ ~(c \in call.todo /\ received'[c] = received[c])
                    THEN 1 ELSE 0

\* C13: send_progress(d, e) delivers the identical payload e exactly once to
\* every connection registered under d at the moment of the call (whose
\* send_json returns) and to no other connection, so a publish made after a
\* connection left reaches only the remaining ones.
C13_DeliveredToRegistered ==
    /\ [](C13_InFlight /\ C13_Payload)
    /\ [][C13_Call /\ C13_Return]_all_vars

\* two connections got the first payload of d, one left, the other alone got
\* the second
C13_Witness ==
    \E d \in Docs : \E c1 \in Conns : \E c2 \in Conns \ {c1} :
        /\ Len(published[d]) = 2
        /\ InFlight(d) = {}
        /\ Registered(d) = {c1}
        /\ received[c1] = <<[doc |-> d, seq |-> 1, data |-> published[d][1]],
                            [doc |-> d, seq |-> 2, data |-> published[d][2]]>>
        /\ received[c2] = <<[doc |-> d, seq |-> 1, data |-> published[d][1]]>>

\* the step in which send_json raised for connection c of call's copy: the
\* call moved past c and nothing was delivered to c
SendFailedStep(call, c) ==
    /\ c \in call.todo
    /\ call \notin sending'
    /\ received'[c] = received[c]
    /\ \A k \in sending' :
          (k.doc = call.doc /\ k.seq = call.seq) => c \notin k.todo

\* C14: when send_json raises for one connection during send_progress(d, e),
\* that connection is no longer registered under d (the other registrations
\* are as they were), the publishing run goes on as if nothing had happened,
\* and the connections of the copy whose turn has not come are still to be
\* sent e.
C14_FailedDelivery ==
    [][\A call \in sending : \A c \in Conns :
          SendFailedStep(call, c) =>
              /\ c \notin RegisteredIn(active_connections', call.doc)
              /\ active_connections' =
                     disconnect(active_connections, c, call.doc)
              /\ \A o \in Conns \ {c} :
                    o \in RegisteredIn(active_connections', call.doc)
                        <=> o \in Registered(call.doc)
              /\ svc' = svc
              /\ published' = published
              /\ \A o \in call.todo \ {c} :
                    \E k \in sending' :
                        /\ k.doc = call.doc /\ k.seq = call.seq
                        /\ k.data = call.data
                        /\ o \in k.todo]_all_vars

\* a call whose first send_json raised: that connection is out of the
\* registry, the run is still running and another connection is still to be
\* sent the payload
C14_Witness ==
    \E call \in sending : \E c \in call.failed :
        /\ c \notin Registered(call.doc)
        /\ call.todo # {}
        /\ svc[call.doc] = "running"

\* C15: in the log of every connection, the payloads of one document appear
\* in the order in which send_progress was called for that document.
C15_FifoPerDocument ==
    \A c \in Conns : \A i \in 1..Len(received[c]) : \A j \in 1..Len(received[c]) :
        (i < j /\ received[c][i].doc = received[c][j].doc) =>
            received[c][i].seq < received[c][j].seq

\* a connection that stayed registered got the first two payloads of a run
C15_Witness ==
    \E c \in Conns : \E d \in Docs :
        /\ c \in Registered(d)
        /\ Len(received[c]) >= 2
        /\ received[c][1] = [doc |-> d, seq |-> 1, data |-> published[d][1]]
        /\ received[c][2] = [doc |-> d, seq |-> 2, data |-> published[d][2]]

\* C16: once 'complete' has been passed to send_progress for a document, no
\* further call is made for it, no call in flight takes on a connection, and
\* a connection that is not still to come in a call in flight (so every
\* connection that joins from then on) gets no payload of that document.
C16_NoReplayAfterComplete ==
    [][\A d \in Docs :
          CompletePublished(d) =>
              /\ published'[d] = published[d]
              /\ \A k \in sending' :
                    k.doc = d =>
                        \E old \in sending :
                            /\ old.doc = d /\ old.seq = k.seq
                            /\ k.todo \subseteq old.todo
              /\ \A c \in Conns :
                    (\A call \in InFlight(d) : c \notin call.todo) =>
                        DocLog(received'[c], d) = DocLog(received[c], d)]_all_vars

\* a connection registered under a document whose 'complete' call has
\* returned, with nothing in its log
C16_Witness ==
    \E d \in Docs : \E c \in Conns :
        /\ CompletePublished(d)
        /\ InFlight(d) = {}
        /\ c \in Registered(d)
        /\ received[c] = <<>>

\* every value active_connections can have: some ids, each with a non-empty
\* set of connections
Registries ==
    UNION {[D -> (SUBSET Conns) \ {{}}] : D \in SUBSET Docs}

\* C17: connect() for a connection already registered under the id leaves
\* the registry as it is (registering twice is registering once), and no
\* payload is delivered to a connection more than once.
C17_JoinIdempotent ==
    /\ \A conns \in Registries : \A c \in Conns, d \in Docs :
          /\ c \in RegisteredIn(conns, d) => register(conns, c, d) = conns
          /\ register(register(conns, c, d), c, d) = register(conns, c, d)
    /\ \A c \in Conns, d \in Docs :
          c \in Registered(d) =>
              register(active_connections, c, d) = active_connections
    /\ \A c \in Conns, d \in Docs : \A n \in 1..Len(published[d]) :
          CountIn(received[c], d, n) <= 1

\* a connection registered next to another one, with a second connect() of
\* it about to register, that has been delivered the latest payload once
C17_Witness ==
    \E c \in Conns : \E d \in Docs :
        /\ c \in Registered(d)
        /\ Registered(d) # {c}
        /\ <<c, d>> \in accepting
        /\ Len(published[d]) >= 1
        /\ CountIn(received[c], d, Len(published[d])) = 1

\* C18: disconnect(connection, d) for a connection that is not registered
\* under d leaves the registry unchanged, whether d has no entry or an entry
\* that holds only other connections.
C18_DisconnectUnregistered ==
    \A c \in Conns, d \in Docs :
        c \notin Registered(d) =>
            disconnect(active_connections, c, d) = active_connections

\* a connection that is registered nowhere, one id with an entry holding
\* another connection and one id with no entry
C18_Witness ==
    \E c \in Conns : \E d1 \in Docs : \E d2 \in Docs :
        /\ d1 \in DOMAIN active_connections
        /\ active_connections[d1] # {}
        /\ c \notin active_connections[d1]
        /\ d2 \notin DOMAIN active_connections
        /\ c \notin Registered(d2)

\* C19: no document id in active_connections maps to an empty set.
C19_NoEmptyEntry ==
    \A d \in DOMAIN active_connections : active_connections[d] # {}

\* the registry is empty again after a connection was registered, was
\* delivered a payload and was removed
C19_Witness ==
    /\ DOMAIN active_connections = {}
    /\ \E c \in Conns : received[c] # <<>>

\* ---------------------------------------------------------------- chunk index
\* the chunk_index values of a list of chunks
ChunkIndexes(cs) == {cs[k].chunk_index : k \in 1..Len(cs)}

\* C20: the chunk_index values of the chunks a run assembles, and of those
\* it persists, are pairwise distinct and are the range 0..N-1.
C20_ChunkIndexRange ==
    /\ pc \in {"notify_embedding", "embed", "notify_storing", "store"} =>
          /\ ChunkIndexes(all_chunks) = 0..(Len(all_chunks) - 1)
          /\ \A i \in 1..Len(all_chunks) : \A j \in 1..Len(all_chunks) :
                i # j => all_chunks[i].chunk_index # all_chunks[j].chunk_index
    /\ pc \in {"notify_complete", "return"} =>
          /\ ChunkIndexes(RunChunks) = 0..(Len(RunChunks) - 1)
          /\ \A i \in 1..Len(RunChunks) : \A j \in 1..Len(RunChunks) :
                i # j => RunChunks[i].chunk_index # RunChunks[j].chunk_index

\* ---------------------------------------------------------------- functions
\* the chunker was called on its own and has returned
ChunkerReturned == fn_call.fn = "chunk" /\ fn_result # <<>>

\* C21: the i-th table (0-based) gets chunk_index i, whatever the number of
\* section chunks produced before it.
C21_TableIndexLocal ==
    ChunkerReturned =>
        LET r == fn_result[1] IN
        /\ Len(r.table_chunks) = fn_call.tables
        /\ \A i \in 1..Len(r.table_chunks) :
              /\ r.table_chunks[i].chunk_index = i - 1
              /\ r.all_chunks[Len(r.section_chunks) + i].chunk_index = i - 1

\* two section chunks were produced, and the two tables are numbered 0 and 1
C21_Witness ==
    /\ ChunkerReturned
    /\ Len(fn_result[1].section_chunks) = 2
    /\ Len(fn_result[1].table_chunks) = 2
    /\ fn_result[1].all_chunks[3].chunk_index = 0
    /\ fn_result[1].all_chunks[4].chunk_index = 1

\* C22: the assembled sequence is the section chunks followed by the table
\* chunks; there is one table chunk per table, in the order of the tables,
\* and its section_type is 'table'.
C22_SectionsThenTables ==
    ChunkerReturned =>
        LET r == fn_result[1]
            n == Len(r.section_chunks) IN
        /\ Len(r.all_chunks) = n + fn_call.tables
        /\ \A k \in 1..n :
              /\ r.all_chunks[k] = r.section_chunks[k]
              /\ r.all_chunks[k] = chunk_sections(fn_call.sections)[k]
        /\ \A i \in 1..fn_call.tables :
              /\ r.all_chunks[n + i].section_type = "table"
              /\ r.all_chunks[n + i].table_index = i - 1
              /\ DOMAIN r.all_chunks[n + i] =
                    {"chunk_index", "section_type", "table_index"}

\* one section of one chunk and two tables
C22_Witness ==
    /\ ChunkerReturned
    /\ fn_call.sections = <<1>>
    /\ fn_call.tables = 2
    /\ Len(fn_result[1].all_chunks) = 3
    /\ fn_result[1].all_chunks[1].section_type = SectionName(1)
    /\ fn_result[1].all_chunks[2].table_index = 0
    /\ fn_result[1].all_chunks[3].table_index = 1

\* the chunks of the pos-th section among the section chunks
ChunksOfSection(section_chunks, pos) ==
    SelectSeq(section_chunks, LAMBDA c : c.section_type = SectionName(pos))

\* C23: chunk_sections numbers its chunks 0,1,2,... in the order of the
\* sections, a section with an empty text list yields no chunk and uses no
\* index, and the chunks of one section are the splitter's nodes in order,
\* with local_chunk_index 0..n-1 and total_chunks_in_section n.
C23_SectionChunks ==
    ChunkerReturned =>
        LET cs == fn_result[1].section_chunks
            sections == fn_call.sections IN
        /\ \A k \in 1..Len(cs) : cs[k].chunk_index = k - 1
        /\ \A k \in 1..Len(cs) : \E pos \in 1..Len(sections) :
              cs[k].section_type = SectionName(pos)
        /\ \A j \in 1..Len(cs) : \A k \in 1..Len(cs) :
              j < k => cs[j].section_type[2] <= cs[k].section_type[2]
        /\ \A pos \in 1..Len(sections) :
              LET own == ChunksOfSection(cs, pos) IN
              /\ Len(own) = IF sections[pos] = EmptySection THEN 0
                            ELSE sections[pos]
              /\ \A k \in 1..Len(own) :
                    /\ own[k].local_chunk_index = k - 1
                    /\ own[k].total_chunks_in_section = Len(own)

\* an empty section followed by a section of two nodes: chunks 0 and 1
C23_Witness ==
    /\ ChunkerReturned
    /\ fn_call.sections = <<EmptySection, 2>>
    /\ Len(fn_result[1].section_chunks) = 2
    /\ fn_result[1].section_chunks[1].chunk_index = 0
    /\ fn_result[1].section_chunks[1].section_type = SectionName(2)
    /\ fn_result[1].section_chunks[2].local_chunk_index = 1

\* C24: generate_embeddings(texts, batch_size) returns one embedding per
\* text, the i-th being the embedding of texts[i], for every batch_size >= 1;
\* for no texts it returns [] and makes no call to the model.
C24_EmbeddingsAligned ==
    (fn_call.fn = "generate_embeddings" /\ fn_result # <<>>) =>
        LET r == fn_result[1]
            texts == fn_call.texts IN
        /\ Len(r.all_embeddings) = Len(texts)
        /\ \A i \in 1..Len(texts) : r.all_embeddings[i] = Embedding(texts[i])
        /\ texts = <<>> => r.model_calls = 0

\* three texts in batches of two: two calls of the model, three embeddings
C24_Witness ==
    /\ fn_call.fn = "generate_embeddings"
    /\ fn_call.texts = <<"text1", "text2", "text1">>
    /\ fn_call.batch_size = 2
    /\ fn_result # <<>>
    /\ fn_result[1].model_calls = 2
    /\ Len(fn_result[1].all_embeddings) = 3

\* C26: every list get_cpc_hints returns for a domain list has no duplicates
\* and holds exactly the hints the table has for the labels of the list
\* (labels that are not in the table give nothing), so two calls with the
\* same list return the same set.
C26_CpcHints ==
    fn_call.fn = "get_cpc_hints" =>
        /\ \A n \in 1..Len(fn_result) :
              LET hints == fn_result[n] IN
              /\ \A i \in 1..Len(hints) : \A j \in 1..Len(hints) :
                    i # j => hints[i] # hints[j]
              /\ SetOf(hints) =
                    UNION {SetOf(cpc_mapping[d]) :
                             d \in SetOf(fn_call.domains) \cap DOMAIN cpc_mapping}
        /\ \A m \in 1..Len(fn_result) : \A n \in 1..Len(fn_result) :
              SetOf(fn_result[m]) = SetOf(fn_result[n])

\* two calls for 'electrical' and 'general' that returned the two hints in
\* different orders
C26_Witness ==
    /\ fn_call.fn = "get_cpc_hints"
    /\ fn_call.domains = <<"electrical", "general">>
    /\ fn_result = << <<"H01", "H02">>, <<"H02", "H01">> >>

\* ---------------------------------------------------------------- C25
PipelineKeys ==
    {"total_chunks", "technical_domains", "technical_terms", "cpc_hints",
     "has_tables", "embedding_model", "embedding_dimension"}

\* the step of Store that commits the completed document
StoreCommits == pc = "store" /\ pc' = "notify_complete"

\* C25: when a run completes, the stored metadata is a field-level merge:
\* every key the document had before that is not a pipeline key keeps its
\* value, the seven pipeline keys hold the values derived in this run, and
\* there is no other key.
C25_MetadataMerge ==
    [][StoreCommits =>
         /\ DOMAIN row'.metadata = (DOMAIN row.metadata) \cup PipelineKeys
         /\ \A k \in (DOMAIN row.metadata) \ PipelineKeys :
               row'.metadata[k] = row.metadata[k]
         /\ row'.metadata.total_chunks = Len(all_chunks)
         /\ row'.metadata.has_tables = (extracted.tables > 0)
         /\ \A k \in PipelineKeys : row'.metadata[k] = derived_metadata[k]]_vars

\* a second run has completed on a document whose metadata came from an
\* earlier completed run, and the upload-time keys are still there
C25_Witness ==
    /\ pc = "notify_complete"
    /\ run = 2
    /\ \E i \in 1..Len(chunks) : chunks[i].run = 1
    /\ row.metadata.is_primary = "upload"
    /\ row.metadata.original_filename = "upload"
    /\ row.metadata.total_chunks = Len(all_chunks)

\* ---------------------------------------------------------------- C27
StageValues ==
    {"extracting", "classifying", "chunking", "embedding", "storing",
     "complete", "failed"}

\* C27: every event handed to the progress callback has exactly the keys
\* stage, progress and error; stage is one of the seven stage values,
\* progress is an integer in 0..100, and error is non-null only when stage
\* is 'failed'.
C27_EventShape ==
    \A i \in 1..Len(events) :
        /\ DOMAIN events[i] = {"stage", "progress", "error"}
        /\ events[i].stage \in StageValues
        /\ events[i].progress \in 0..100
        /\ events[i].error # NULL => events[i].stage = "failed"

\* a run that published stage events with a null error and then a failed
\* event that carries the message of the exception
C27_Witness ==
    /\ Len(events) >= 2
    /\ events[1].stage = "extracting"
    /\ events[1].error = NULL
    /\ events[Len(events)].stage = "failed"
    /\ events[Len(events)].error # NULL

\* ---------------------------------------------------------------- C28
\* the background tasks, over all requests, that are for document d and
\* whose state is one of states
TasksFor(d, states) ==
    {t \in {<<r, i>> : r \in Requests, i \in 1..MaxUploads + 1} :
        /\ t[2] <= Len(requests[t[1]].background_tasks)
        /\ requests[t[1]].background_tasks[t[2]].document_id = d
        /\ requests[t[1]].background_tasks[t[2]].state \in states}

TaskStates == {"scheduled", "running", "finished"}

\* an upload request creates its Document
CreatesDocument(r) == requests[r].document = 0 /\ requests'[r].document # 0

\* C28: with the upload route as the only trigger, at most one run is ever
\* active for a document id: every upload creates a document record that
\* did not exist, in status 'pending', and schedules exactly one background
\* run for it; no run starts that was not scheduled that way.
C28_OneRunPerDocument ==
    /\ [](\A d \in DocumentIds :
            /\ Cardinality(TasksFor(d, {"running"})) <= 1
            /\ Cardinality(TasksFor(d, TaskStates)) <= 1
            /\ TasksFor(d, TaskStates) # {} => d \in DOMAIN documents
            /\ (d \in DOMAIN documents /\ documents[d] # "pending")
                  => TasksFor(d, {"running", "finished"}) # {})
    /\ [](\A r \in Requests :
            /\ requests[r].pc \in {"return", "responded"}
                  => requests[r].background_tasks =
                        <<[document_id |-> requests[r].document,
                           state |-> requests[r].background_tasks[1].state]>>
            /\ requests[r].pc \notin {"return", "responded", "raised"}
                  => requests[r].background_tasks = <<>>
            /\ \A q \in Requests \ {r} :
                  requests[r].document # 0
                     => requests[q].document # requests[r].document)
    /\ [][\A r \in Requests :
            CreatesDocument(r) =>
                /\ requests'[r].document \notin DOMAIN documents
                /\ requests'[r].document \in DOMAIN documents'
                /\ documents'[requests'[r].document] = "pending"]_all_vars

\* two uploads were accepted and their two runs are active at the same time,
\* one for each document
C28_Witness ==
    /\ \A r \in {1, 2} : requests[r].pc = "responded"
    /\ requests[1].document # requests[2].document
    /\ \A r \in {1, 2} :
          TasksFor(requests[r].document, {"running"}) = {<<r, 1>>}

\* ---------------------------------------------------------------- C30
\* the k-th publish for document d is in flight and has not yet sent to c
SendPending(c, d, k) ==
    \E call \in sending : call.doc = d /\ call.seq = k /\ c \in call.todo

\* connection c has received the k-th event published for document d
ReceivedEvent(c, d, k) ==
    \E i \in 1..Len(received[c]) :
        received[c][i].doc = d /\ received[c][i].seq = k

\* the run of document d has made k calls of the callback, the last of them
\* with an event that is not terminal
RunAtStage(d, k) ==
    /\ svc[d] = "running"
    /\ Len(published[d]) = k
    /\ published[d][k].stage \notin Terminal

\* C30: delivery to one connection does not block the others: with one
\* subscriber whose send never completes, every other subscriber a publish
\* has still to send to eventually receives the event, and the run that
\* published it eventually makes its next call of the callback.
C30_DeliveryNotBlocked ==
    /\ \A c \in Conns \ {Stalled}, d \in Docs, k \in 1..Len(StageOrder) :
          SendPending(c, d, k) ~> ReceivedEvent(c, d, k)
    /\ \A d \in Docs, k \in 1..(Len(StageOrder) - 1) :
          RunAtStage(d, k) ~> (Len(published[d]) > k)

\* ---------------------------------------------------------------- C29
\* the step in which the loop of call has its iteration for connection c
IterationStep(call, c) ==
    /\ c \in call.todo
    /\ call \notin sending'
    /\ \A k \in sending' :
          (k.doc = call.doc /\ k.seq = call.seq) => c \notin k.todo

\* after the iteration for c the call goes on with the other connections of
\* its copy, or has returned if there is none
GoesOn(call, c) ==
    IF call.todo = {c}
    THEN \A k \in sending' : k.doc # call.doc \/ k.seq # call.seq
    ELSE \E k \in sending' :
            /\ k.doc = call.doc /\ k.seq = call.seq
            /\ k.snapshot = call.snapshot
            /\ k.todo = call.todo \ {c}

\* the payload of call, as a connection receives it
Payload(call) == [doc |-> call.doc, seq |-> call.seq, data |-> call.data]

\* C29: a disconnect of c under d that comes between two steps of a
\* send_progress(d, e) in flight leaves the call as it is; the call always
\* has a next step; its iteration for c either delivers e to c or fails,
\* does not register c again, leaves the other registrations alone, and the
\* call goes on to the rest of its copy and returns.
C29_LeaveRacingPublish ==
    /\ [](\A call \in sending :
            /\ call.todo # {}
            /\ call.todo \subseteq call.snapshot
            /\ \A c \in call.todo : ENABLED SendRaises(call, c))
    /\ [][\A call \in sending : \A c \in call.todo :
            (c \in Registered(call.doc)
               /\ c \notin RegisteredIn(active_connections', call.doc))
              => (sending' = sending \/ IterationStep(call, c))]_all_vars
    /\ [][\A call \in sending : \A c \in call.todo :
            (c \notin Registered(call.doc) /\ IterationStep(call, c)) =>
                /\ c \notin RegisteredIn(active_connections', call.doc)
                /\ RegisteredIn(active_connections', call.doc) =
                       Registered(call.doc)
                /\ received'[c] \in {received[c],
                                      Append(received[c], Payload(call))}
                /\ \A o \in Conns \ {c} : received'[o] = received[o]
                /\ svc' = svc
                /\ GoesOn(call, c)]_all_vars

\* c has left d while a publish for d that already delivered to another
\* connection still has c to send to
C29_Witness ==
    \E call \in sending : \E c \in call.todo :
        /\ c \notin Registered(call.doc)
        /\ \E o \in call.snapshot \ (call.todo \cup call.failed) :
              CountIn(received[o], call.doc, call.seq) = 1

\* ---------------------------------------------------------------- C31
\* the positions of a run, in the order in which control can reach them
PcOrder ==
    <<"load", "notify_extracting", "extract", "notify_classifying", "classify",
      "notify_chunking", "chunk", "notify_embedding", "embed", "notify_storing",
      "store", "notify_complete", "return", "except", "notify_failed", "done">>
PcRank(p) == CHOOSE i \in 1..Len(PcOrder) : PcOrder[i] = p

\* C31: with collaborators and callbacks that return or raise, every run
\* goes forward at each step until it is over, and a run that is over on an
\* existing document has persisted a terminal status ('completed' or
\* 'failed', never 'processing') and, given a callback, has emitted a
\* terminal event.
C31_RunTerminates ==
    /\ [][(pc # "idle" /\ pc' # pc) =>
             (pc' = "load" \/ PcRank(pc') > PcRank(pc))]_vars
    /\ []((RunOver /\ doc_exists) =>
             /\ row.processing_status \in {"completed", "failed"}
             /\ has_callback => EventsOf(Terminal) # <<>>)

\* ---------------------------------------------------------------- C32
\* the run has committed 'processing' and has not reached the commit of the
\* store stage: what is persisted now is what a crash of the host leaves
BeforeStoreCommit ==
    pc \in {"notify_extracting", "extract", "notify_classifying", "classify",
            "notify_chunking", "chunk", "notify_embedding", "embed",
            "notify_storing", "store"}

\* C32: at every point between the commit of 'processing' and the commit of
\* the store stage the persisted state is status 'processing', processed_at
\* null, no chunk of this run, and no terminal event has been emitted; and
\* the persisted status is never 'completed' with fewer chunks persisted
\* than metadata.total_chunks.
C32_AbandonedRun ==
    /\ BeforeStoreCommit =>
          /\ row.processing_status = "processing"
          /\ row.processed_at = NULL
          /\ RunChunks = <<>>
          /\ EventsOf(Terminal) = <<>>
    /\ row.processing_status = "completed" =>
          /\ "total_chunks" \in DOMAIN row.metadata
          /\ Len(chunks) >= row.metadata["total_chunks"]

\* ---------------------------------------------------------------- C33
\* the columns of a Document row that a run may write
StatusColumns ==
    {"processing_status", "processing_error", "processed_at", "metadata"}

\* C33: no step of a run, successful or failed, changes a column of the
\* Document row other than processing_status, processing_error, processed_at
\* and metadata, and no step changes the row of another document: in every
\* state those columns and that row are as they were uploaded.
C33_StatusColumnsOnly ==
    /\ DOMAIN row = DOMAIN UploadedRow
    /\ \A column \in (DOMAIN row) \ StatusColumns :
          row[column] = UploadedRow[column]
    /\ other_row = OtherRow

\* a failed run on a row whose four status columns have all been written:
\* the other columns and the other row are as they were uploaded
C33_Witness ==
    /\ RunOver
    /\ row.processing_status = "failed"
    /\ row.processing_error # NULL
    /\ row.processed_at # NULL
    /\ "total_chunks" \in DOMAIN row.metadata
    /\ \A column \in (DOMAIN row) \ StatusColumns :
          row[column] = UploadedRow[column]
    /\ other_row = OtherRow

\* ================================================================ runs of different documents
\* the run of document id d is in progress: it has notified, and not yet a
\* terminal event
InProgress(d) ==
    /\ svc[d] = "running"
    /\ published[d] # <<>>
    /\ published[d][Len(published[d])].stage \notin Terminal

\* C34: with the runs of two documents in progress at the same time, a
\* connection receives only events of the document id it is registered
\* under, a send_progress call iterates only over connections of its own id,
\* and a step that adds a connection to or removes one from the subscriber
\* set of an id (a join, a leave, a delivery that failed) changes the set of
\* that id alone, by connections opened on that id.
C34_DocumentIsolation ==
    /\ [](\A c \in Conns : \A i \in 1..Len(received[c]) :
              received[c][i].doc = ws_doc[c])
    /\ [](\A call \in sending : \A c \in call.snapshot : ws_doc[c] = call.doc)
    /\ [][\A x \in Docs :
              RegisteredIn(active_connections', x) # Registered(x) =>
                  /\ \A y \in Docs \ {x} :
                        /\ RegisteredIn(active_connections', y) = Registered(y)
                        /\ (y \in DOMAIN active_connections') =
                               (y \in DOMAIN active_connections)
                  /\ \A c \in Conns :
                        (c \in RegisteredIn(active_connections', x)) #
                            (c \in Registered(x)) => ws_doc[c] = x
        ]_<<vars, reg_vars>>

\* both runs are in progress, each connection has received an event of its
\* document, and the connection of doc1 has left or been removed while the
\* connection of doc2 is still registered
C34_Witness ==
    /\ InProgress("doc1")
    /\ InProgress("doc2")
    /\ received["ws1"] # <<>>
    /\ received["ws2"] # <<>>
    /\ Registered("doc1") = {}
    /\ Registered("doc2") = {"ws2"}

\* ================================================================ events and commits
\* the persisted status an event announces
Announced(stage) ==
    IF stage = "complete" THEN "completed"
    ELSE IF stage = "failed" THEN "failed"
    ELSE "processing"

\* how far a status is: pending, then processing, then a terminal status
StatusRank(status) ==
    IF status = "pending" THEN 0
    ELSE IF status = "processing" THEN 1
    ELSE 2

\* the run is about to commit the state of its next event: nothing is emitted
\* between that commit and the event
NextEventCommitted == pc \in {"notify_complete", "notify_failed"}

\* C35: an event is emitted only after the state it announces is committed.
\* From the step that passes an event to the callback until the run commits
\* the state of its next event, the persisted row of an existing document
\* has the status the event announces: 'processing' for 'extracting' and the
\* other stage events, 'completed' for 'complete', with every DocumentChunk
\* the run added to the session persisted and none pending, and 'failed'
\* with processing_error equal to the event's error for 'failed'.  In every
\* state of the run the persisted status is not earlier than the status any
\* event emitted so far announces.
C35_EmittedAfterCommit ==
    doc_exists =>
        /\ (events # <<>> /\ ~NextEventCommitted) =>
              LET ev == events[Len(events)] IN
                  /\ row.processing_status = Announced(ev.stage)
                  /\ ev.stage = "complete" =>
                        /\ pending = <<>>
                        /\ Len(RunChunks) = Min(Len(all_chunks), Len(embeddings))
                  /\ ev.stage = "failed" => row.processing_error = ev.error
        /\ \A i \in 1..Len(events) :
              StatusRank(row.processing_status) >=
                  StatusRank(Announced(events[i].stage))

\* 'complete' has been emitted for a document whose chunks are persisted, and
\* then 'failed' because the callback raised on 'complete'
C35_Witness ==
    /\ doc_exists
    /\ Len(events) = 7
    /\ events[6].stage = "complete"
    /\ events[7].stage = "failed"
    /\ row.processing_status = "failed"
    /\ RunChunks # <<>>

\* ================================================================ websocket_endpoint
\* the document ids a connection is registered under
RegisteredUnder(c) == {d \in DOMAIN active_connections : c \in active_connections[d]}

\* C36: a connection whose websocket_endpoint call has exited is registered
\* under no document id, in that state and in every later one, also while a
\* send_progress call that copied it is still in flight; and a connection is
\* registered under at most one document id.
C36_ExitedNotRegistered ==
    /\ \A c \in Conns : handler[c] = "exited" => RegisteredUnder(c) = {}
    /\ \A c \in Conns : Cardinality(RegisteredUnder(c)) <= 1

\* the handler of a connection has exited through an except clause after the
\* connection was registered, while a send_progress call that copied the
\* connection has not reached it yet
C36_Witness ==
    \E c \in Conns, call \in sending :
        /\ handler[c] = "exited"
        /\ c \in call.todo
        /\ received[c] # <<>>

\* ================================================================ the snapshot of send_progress
\* the accept of the connection's websocket_endpoint call has completed
Accepted(c) == handler[c] \in {"receive", "exited"}

\* the step delivers a payload to connection c
DeliveryTo(c) == Len(received'[c]) = Len(received[c]) + 1

\* C37: send_progress delivers to the copy of the subscriber set it took when
\* it was called.  A payload is delivered to a connection only by a call in
\* flight whose copy holds the connection and that has not reached it yet; a
\* call's copy never changes, so a connection that registers while the call
\* is in flight is not in it and has not received the call's payload; no
\* connection has a payload twice; and a copy holds, and payloads reach, only
\* connections whose accept has completed.
C37_SnapshotDelivery ==
    /\ [](\A call \in sending : \A c \in Conns \ call.snapshot :
              CountIn(received[c], call.doc, call.seq) = 0)
    /\ [](\A c \in Conns : \A i \in 1..Len(received[c]) :
              CountIn(received[c], received[c][i].doc, received[c][i].seq) = 1)
    /\ [](\A c \in Conns :
              (received[c] # <<>> \/ \E call \in sending : c \in call.snapshot)
                  => Accepted(c))
    /\ [][\A c \in Conns :
              DeliveryTo(c) =>
                  \E call \in sending :
                      /\ c \in call.snapshot \cap call.todo
                      /\ received'[c] = Append(received[c], Payload(call))
        ]_<<vars, reg_vars, ep_vars>>
    /\ [][\A call \in sending : \A k \in sending' :
              (k.doc = call.doc /\ k.seq = call.seq) =>
                  k.snapshot = call.snapshot
        ]_<<vars, reg_vars, ep_vars>>
    /\ [][\A k \in sending' :
              (\A call \in sending : k.doc # call.doc \/ k.seq # call.seq) =>
                  k.snapshot \subseteq Registered(k.doc)
        ]_<<vars, reg_vars, ep_vars>>

\* a connection has received an earlier payload and is still to come in a
\* call in flight, while a connection that registered under the id after the
\* call took its copy has received nothing
C37_Witness ==
    \E call \in sending : \E c1 \in call.snapshot : \E c2 \in Conns \ call.snapshot :
        /\ c2 \in Registered(call.doc)
        /\ c1 \in call.todo
        /\ received[c1] # <<>>
        /\ received[c2] = <<>>

\* ================================================================ extractor
\* the section that is current when the i-th element is read: the name of
\* the last Title before it, 'introduction' if there is none
CurrentAt(elements, i) ==
    LET titles == {k \in 1..(i - 1) : elements[k].type = "Title"}
    IN IF titles = {} THEN Introduction
       ELSE section_name(elements[CHOOSE k \in titles : \A j \in titles : j <= k].text)

\* the texts of the NarrativeText and ListItem elements read while section
\* name was current, in input order
RECURSIVE ReadUnder(_, _, _)
ReadUnder(elements, name, i) ==
    IF i > Len(elements) THEN <<>>
    ELSE (IF /\ elements[i].type \in {"NarrativeText", "ListItem"}
             /\ CurrentAt(elements, i) = name
          THEN <<elements[i].text>> ELSE <<>>)
         \o ReadUnder(elements, name, i + 1)

\* the section names in order of first occurrence, 'introduction' first
RECURSIVE FirstOccurrences(_, _, _)
FirstOccurrences(elements, i, seen) ==
    IF i > Len(elements) THEN seen
    ELSE FirstOccurrences(elements, i + 1,
            IF /\ elements[i].type = "Title"
               /\ \A k \in DOMAIN seen : seen[k] # section_name(elements[i].text)
            THEN Append(seen, section_name(elements[i].text))
            ELSE seen)

TextsOf(elements, type) ==
    LET of == SelectSeq(elements, LAMBDA e : e.type = type)
    IN [k \in DOMAIN of |-> of[k].text]

\* C38: _organize_elements never discards text.  Every NarrativeText and
\* ListItem text is in the output under the section that was current when it
\* was read, at its place among the texts read under that section; the
\* tables are the Table elements in input order; the section keys are in
\* order of first occurrence, 'introduction' first.
C38_NeverDiscardsText ==
    (fn_call.fn = "organize_elements" /\ fn_result # <<>>) =>
        LET elements == fn_call.elements
            out == fn_result[1]
        IN /\ \A i \in DOMAIN elements :
                 elements[i].type \in {"NarrativeText", "ListItem"} =>
                     LET name == CurrentAt(elements, i)
                         read == ReadUnder(elements, name, 1)
                     IN /\ HasKey(out.sections, name)
                        /\ \A k \in DOMAIN read :
                              /\ k \in DOMAIN GetItem(out.sections, name)
                              /\ GetItem(out.sections, name)[k] = read[k]
           /\ [k \in DOMAIN out.tables |-> out.tables[k].text] =
                  TextsOf(elements, "Table")
           /\ [k \in DOMAIN out.sections |-> out.sections[k].name] =
                  FirstOccurrences(elements, 1, <<Introduction>>)

\* ================================================================ token estimate
\* C39: token_count is word_count * 1.33 rounded down, floor(133 * w / 100)
\* for the number w of whitespace-separated words of the text; it is 0 for
\* the empty text and never negative.
C39_TokensRoundedDown ==
    (fn_call.fn = "estimate_tokens" /\ fn_result # <<>>) =>
        LET w == word_count(fn_call.text) IN
            /\ fn_result[1] = (133 * w) \div 100
            /\ fn_result[1] >= 0
            /\ fn_call.text = <<>> => fn_result[1] = 0

\* the estimate of a text of 100 words, where 1.33 * w is an integer
C39_Witness ==
    /\ fn_call.fn = "estimate_tokens"
    /\ word_count(fn_call.text) = 100
    /\ fn_result = <<133>>

\* C40 as stated: token_count is the integer nearest to 1.33 times the
\* number of words, for every word count.
C40_TokensRounded ==
    (fn_call.fn = "estimate_tokens" /\ fn_result # <<>>) =>
        LET w == word_count(fn_call.text) IN
            /\ 100 * fn_result[1] <= 133 * w + 50
            /\ 100 * fn_result[1] >= 133 * w - 50

\* C40: token_count is int(word_count * 1.33), the integer part of 1.33
\* times the number of words: the nearest integer when the fraction of
\* 1.33 * w is below one half, and one less than the nearest integer
\* otherwise.
C40_TokensTruncated ==
    (fn_call.fn = "estimate_tokens" /\ fn_result # <<>>) =>
        LET w == word_count(fn_call.text)
            nearest == (133 * w + 50) \div 100
        IN fn_result[1] = IF (133 * w) % 100 < 50 THEN nearest ELSE nearest - 1

\* the estimate of a text of two words: 2, where the nearest integer to 2.66
\* is 3
C40_Witness ==
    /\ fn_call.fn = "estimate_tokens"
    /\ word_count(fn_call.text) = 2
    /\ fn_result = <<2>>
====
